---- MODULE Spec2Model ----
(***************************************************************************)
(* Model of the honeypot API (src/main.py): the scam classifier            *)
(* (predict_scam), the persona/language router                             *)
(* (select_persona_and_language, _heuristic_persona_and_language), the     *)
(* entity extractor (extract_entities), the /analyze handler with its      *)
(* process-wide session_state, and the background callback                 *)
(* (check_and_send_callback).                                              *)
(*                                                                         *)
(* Python str values are TLA+ strings; a character is a string of length 1 *)
(* and s[i] is SubSeq(s, i, i).  An Optional[str] is <<>> for None and     *)
(* <<s>> for the string s.                                                 *)
(***************************************************************************)
EXTENDS Integers, Sequences, FiniteSets, TLC

VARIABLES
    scam_classifier,   \* global scam_classifier is loaded (main.py:63)
    tfidf_vectorizer,  \* global tfidf_vectorizer is loaded (main.py:64)
    gemini_model,      \* global gemini_model is initialised (main.py:65)
    session_state,     \* global session_state: a dict from conversation id to session
    handled,           \* the /analyze requests the handler has run on, in order; request id = index
    inflight,          \* requests with work left: response to send, callback task to run or running
    delivered,         \* request id -> response the caller has received, or NoResponse
    posted,            \* request id -> the payloads its callback task has POSTed to CALLBACK_URL
    log,               \* how often each of the two log lines after the POST was written
    now,               \* time.time()
    call               \* one application of a pure function: its input and its result

vars == << scam_classifier, tfidf_vectorizer, gemini_model, session_state,
           handled, inflight, delivered, posted, log, now, call >>

-----------------------------------------------------------------------------
(* Strings                                                                 *)

Chars(s) == { SubSeq(s, i, i) : i \in 1..Len(s) }
Min(a, b) == IF a <= b THEN a ELSE b

UpperLetters == "ABCDEFGHIJKLMNOPQRSTUVWXYZ"
LowerLetters == "abcdefghijklmnopqrstuvwxyz"
DigitChars == Chars("0123456789")
UpperChars == Chars(UpperLetters)
LowerChars == Chars(LowerLetters)
AlphaChars == UpperChars \cup LowerChars
WordChars == AlphaChars \cup DigitChars \cup {"_"}
SpaceChars == {" "}

\* s[i], or "" when i is outside the string; s[i..j] clipped to the string
At(s, i) == IF i \in 1..Len(s) THEN SubSeq(s, i, i) ELSE ""
Sub(s, i, j) == SubSeq(s, IF i < 1 THEN 1 ELSE i, IF j > Len(s) THEN Len(s) ELSE j)

LowerChar(c) ==
    IF c \in UpperChars
    THEN LET i == CHOOSE k \in 1..Len(UpperLetters) : At(UpperLetters, k) = c
         IN  At(LowerLetters, i)
    ELSE c

\* str.lower()
RECURSIVE lower(_)
lower(s) ==
    IF Len(s) <= 1 THEN LowerChar(s)
    ELSE lower(SubSeq(s, 1, Len(s) \div 2)) \o lower(SubSeq(s, Len(s) \div 2 + 1, Len(s)))

\* `sub in s` for two str values
Contains(sub, s) ==
    \E i \in 0..(Len(s) - Len(sub)) : SubSeq(s, i + 1, i + Len(sub)) = sub

\* any(k in s for k in ks), ks a list of str
AnyIn(ks, s) == \E n \in 1..Len(ks) : Contains(ks[n], s)

\* Optional[str]
None == << >>
Some(s) == << s >>
OrEmpty(t) == IF t = None THEN "" ELSE t[1]     \* (t or "")

\* The result of a call that may raise.
Returned(v) == [raised |-> FALSE, value |-> v]
Raised == [raised |-> TRUE, value |-> FALSE]

-----------------------------------------------------------------------------
(* ScamClassifier: predict_scam                                            *)

keywords ==
    << "bank", "verify", "blocked", "lottery", "winner", "prize", "urgent",
       "credit card", "kyc", "update", "otp", "pin", "cvv", "expiry",
       "cbi", "police", "customs", "narcotics", "seized", "arrest", "warrant",
       "electricity", "disconnect", "meter",
       "job", "task", "prepaid", "youtube", "review",
       "fedex", "courier", "parcel" >>

positive_labels == << "scam", "spam", "fraud", "1" >>

\* What tier 1 does with a text: transform/predict raise, or predict
\* returns a value whose str() is `label`.  Vectorizing None raises.
MLRaises == [raises |-> TRUE, label |-> ""]
MLPredicts(label) == [raises |-> FALSE, label |-> label]

\* A classifier whose tier 1, when loaded and not raising, decides alone:
\* a negative prediction returns False without the keyword tier.
predict_scam_tier1_decides(text, classifier, vectorizer, ml) ==
    IF text = None THEN Raised
    ELSE IF classifier /\ vectorizer /\ ~ml.raises
    THEN Returned(\E n \in 1..Len(positive_labels) : lower(ml.label) = positive_labels[n])
    ELSE Returned(AnyIn(keywords, lower(text[1])))

\* predict_scam(text) with the loaded flags and the tier-1 outcome `ml`.
predict_scam(text, classifier, vectorizer, ml) ==
    LET tier1 == /\ classifier /\ vectorizer
                 /\ text # None
                 /\ ~ml.raises
                 /\ \E n \in 1..Len(positive_labels) : lower(ml.label) = positive_labels[n]
    IN  IF tier1 THEN Returned(TRUE)
        ELSE IF text = None THEN Raised            \* None.lower(): AttributeError
        ELSE IF AnyIn(keywords, lower(text[1])) THEN Returned(TRUE)
        ELSE Returned(FALSE)

-----------------------------------------------------------------------------
(* PersonaRouter                                                           *)

PERSONAS == << "grandma", "student", "skeptic", "parent" >>     \* PERSONAS.keys(), in order

hinglish_markers ==
    << "bhai", "bha", "haan", "haanji", "kya", "kyu", "nahi", "nahin", "sir ji",
       "beta", "paise", "paisa", "upi", "karo", "kar do", "jaldi" >>
authority_markers ==
    << "cbi", "police", "cyber", "arrest", "court", "customs", "narcotics",
       "parcel", "legal", "section" >>
money_markers ==
    << "lottery", "loan", "job", "offer", "task", "telegram", "earn", "salary", "reward" >>
bank_markers ==
    << "kyc", "bank", "account", "otp", "blocked", "freeze", "pan", "aadhar", "ifsc",
       "electricity", "bill", "anydesk", "teamviewer", "virus" >>

\* A heuristic that checks the money markers before the authority markers.
_heuristic_money_first(text) ==
    LET lower_ == lower(OrEmpty(text))
        language == IF AnyIn(hinglish_markers, lower_) THEN "hinglish" ELSE "english"
    IN  IF AnyIn(money_markers, lower_) THEN << "student", language >>
        ELSE IF AnyIn(authority_markers, lower_) THEN << "skeptic", language >>
        ELSE IF AnyIn(bank_markers, lower_) THEN << "grandma", language >>
        ELSE << "parent", language >>

_heuristic_persona_and_language(text) ==
    LET lower_ == lower(OrEmpty(text))
        language == IF AnyIn(hinglish_markers, lower_) THEN "hinglish" ELSE "english"
    IN  IF AnyIn(authority_markers, lower_) THEN << "skeptic", language >>
        ELSE IF AnyIn(money_markers, lower_) THEN << "student", language >>
        ELSE IF AnyIn(bank_markers, lower_) THEN << "grandma", language >>
        ELSE << "parent", language >>

\* str.strip(): leading and trailing whitespace removed
RECURSIVE lstrip(_)
lstrip(s) == IF s # "" /\ Head(s) \in SpaceChars THEN lstrip(Tail(s)) ELSE s
RECURSIVE rstrip(_)
rstrip(s) ==
    IF s # "" /\ At(s, Len(s)) \in SpaceChars THEN rstrip(SubSeq(s, 1, Len(s) - 1)) ELSE s
strip(s) == rstrip(lstrip(s))

\* str.split(sep) for a one-character sep: the list of the pieces between the seps
RECURSIVE split(_, _)
split(s, sep) ==
    IF \E i \in 1..Len(s) : At(s, i) = sep
    THEN LET i == CHOOSE k \in 1..Len(s) :
                      At(s, k) = sep /\ \A j \in 1..(k - 1) : At(s, j) # sep
         IN  << SubSeq(s, 1, i - 1) >> \o split(SubSeq(s, i + 1, Len(s)), sep)
    ELSE << s >>

\* What the LLM call does: generate_content (or reading response.text) raises,
\* or response.text is `text`.
LLMRaises == [raises |-> TRUE, text |-> ""]
LLMAnswers(text) == [raises |-> FALSE, text |-> text]

\* select_persona_and_language(text) with the gemini_model flag and the outcome
\* `llm` of the routing call.
select_persona_and_language(text, model, llm) ==
    IF ~model THEN _heuristic_persona_and_language(text)
    ELSE IF llm.raises THEN _heuristic_persona_and_language(text)
    ELSE LET result == lower(strip(llm.text))
             parts == split(result, "|")
             hits == { n \in 1..Len(PERSONAS) : Contains(PERSONAS[n], parts[1]) }
             selected_persona ==
                 IF hits = {} THEN "grandma"
                 ELSE PERSONAS[CHOOSE n \in hits : \A m \in hits : n <= m]
             selected_language ==
                 IF Len(parts) >= 2 /\ (Contains("hinglish", parts[2]) \/ Contains("hindi", parts[2]))
                 THEN "hinglish" ELSE "english"
         IN  << selected_persona, selected_language >>

-----------------------------------------------------------------------------
(* Regular expressions of extract_entities.  A pattern is an operator      *)
(* M(s, i): the index of the last character of the match re would find     *)
(* starting at s[i] (greedy, with backtracking), or 0 when there is none.   *)
(* No pattern here matches the empty string.                               *)

\* \b before s[p] (p in 1..Len(s)+1)
Boundary(s, p) == (At(s, p - 1) \in WordChars) # (At(s, p) \in WordChars)

\* how many characters from s[p] on are in class C, at most max
Run(s, p, C, max) ==
    LET lim == Min(max, Len(s) - p + 1)
    IN  IF lim <= 0 THEN 0
        ELSE CHOOSE n \in 0..lim :
                 /\ \A j \in 0..(n - 1) : At(s, p + j) \in C
                 /\ (n = lim \/ At(s, p + n) \notin C)

\* X? for a one-character X of class C: the position after it
Opt(s, p, C) == IF At(s, p) \in C THEN p + 1 ELSE p
\* \d{n} at s[p]
DigitsAt(s, p, n) == \A j \in 0..(n - 1) : At(s, p + j) \in DigitChars

\* re.findall(M, s) as the list of the spans <<first, last>> of the matches:
\* leftmost first, the scan resuming after each match
FindSpans(s, M(_, _)) ==
    LET starts(p) == { q \in p..Len(s) : M(s, q) # 0 }
        f[p \in 1..(Len(s) + 1)] ==
            IF starts(p) = {} THEN << >>
            ELSE LET q == CHOOSE x \in starts(p) : \A y \in starts(p) : x <= y
                 IN  << << q, M(s, q) >> >> \o f[M(s, q) + 1]
    IN  f[1]
\* re.findall(M, s) for a pattern without groups: the matched strings
FindAll(s, M(_, _)) ==
    LET spans == FindSpans(s, M)
    IN  [n \in 1..Len(spans) |-> SubSeq(s, spans[n][1], spans[n][2])]

SepChars == {"-"} \cup SpaceChars          \* [\-\s]

\* phone_pattern_indian = (?:\+91[\-\s]?)?\b[6-9]\d{9}\b
PhoneIndianCore(s, j) ==
    IF /\ Boundary(s, j) /\ At(s, j) \in Chars("6789")
       /\ DigitsAt(s, j + 1, 9) /\ Boundary(s, j + 10)
    THEN j + 9 ELSE 0
phone_pattern_indian(s, i) ==
    IF Sub(s, i, i + 2) = "+91"
    THEN IF At(s, i + 3) \in SepChars /\ PhoneIndianCore(s, i + 4) # 0
         THEN PhoneIndianCore(s, i + 4)
         ELSE IF PhoneIndianCore(s, i + 3) # 0 THEN PhoneIndianCore(s, i + 3)
         ELSE PhoneIndianCore(s, i)
    ELSE PhoneIndianCore(s, i)

\* phone_pattern_us = \+1[\-\s]?\(?\d{3}\)?[\-\s]?\d{3}[\-\s]?\d{4}
phone_pattern_us(s, i) ==
    LET p1 == Opt(s, Opt(s, i + 2, SepChars), {"("})
        p2 == Opt(s, Opt(s, p1 + 3, {")"}), SepChars)
        p3 == Opt(s, p2 + 3, SepChars)
    IN  IF /\ Sub(s, i, i + 1) = "+1" /\ DigitsAt(s, p1, 3)
           /\ DigitsAt(s, p2, 3) /\ DigitsAt(s, p3, 4)
        THEN p3 + 3 ELSE 0

\* phone_pattern_tollfree = (?:1?[-\s]?)?800[\-\s]?\d{3}[\-\s]?\d{4}
phone_pattern_tollfree(s, i) ==
    LET p1 == Opt(s, Opt(s, i, {"1"}), SepChars)
        p2 == Opt(s, p1 + 3, SepChars)
        p3 == Opt(s, p2 + 3, SepChars)
    IN  IF /\ Sub(s, p1, p1 + 2) = "800" /\ DigitsAt(s, p2, 3) /\ DigitsAt(s, p3, 4)
        THEN p3 + 3 ELSE 0

\* phone_intl = \+\d{1,3}[\-\s]?\d{6,12}
PhoneIntlTail(s, i, k) ==       \* with \d{1,3} taking k digits
    LET p == Opt(s, i + 1 + k, SepChars)
        r == Run(s, p, DigitChars, 12)
    IN  IF DigitsAt(s, i + 1, k) /\ r >= 6 THEN p + r - 1 ELSE 0
phone_intl(s, i) ==
    IF At(s, i) # "+" THEN 0
    ELSE IF PhoneIntlTail(s, i, 3) # 0 THEN PhoneIntlTail(s, i, 3)
    ELSE IF PhoneIntlTail(s, i, 2) # 0 THEN PhoneIntlTail(s, i, 2)
    ELSE PhoneIntlTail(s, i, 1)

\* bank_account_pattern = \b\d{9,18}\b
bank_account_pattern(s, i) ==
    LET r == Run(s, i, DigitChars, 18)
    IN  IF Boundary(s, i) /\ r >= 9 /\ Boundary(s, i + r) THEN i + r - 1 ELSE 0

\* re.sub(r'\D', '', p)
RECURSIVE OnlyDigits(_)
OnlyDigits(p) ==
    IF Len(p) <= 1 THEN (IF p \in DigitChars THEN p ELSE "")
    ELSE OnlyDigits(SubSeq(p, 1, Len(p) \div 2)) \o OnlyDigits(SubSeq(p, Len(p) \div 2 + 1, Len(p)))

\* the alternatives of the group of upi_pattern, in order
upi_providers ==
    << "oksbi", "okaxis", "okhdfcbank", "okicici", "okbob", "oksbi", "paytm", "phonepe",
       "ybl", "paypal", "okbiz", "upi", "payzapp", "bms", "dmrc", "ola", "swiggy", "zomato",
       "amazon", "google", "okhdfcbank", "sbi", "axis", "icici", "hdfc", "pnb", "bob",
       "kotak", "idfc", "yesbank", "indus", "kotak", "union", "canara", "bandhan",
       "federal", "southindian", "karur", "cityunion", "indianoverseas", "saraswat",
       "abhyuday", "apnas", "barodampay", "cmsidfc", "equitas", "esaf", "finobank", "hsbc",
       "jupiter", "kbl", "kmb", "nsdl", "pnb", "purvanchal", "rajasthan", "tmb", "uco",
       "ujjivan", "union", "utbi" >>

UpiLocalChars == AlphaChars \cup DigitChars \cup Chars(".-_")     \* [a-zA-Z0-9.\-_]

\* the alternatives of upi_providers that match at s[p], re.IGNORECASE
UpiProvidersAt(s, p) ==
    { n \in 1..Len(upi_providers) :
          lower(Sub(s, p, p + Len(upi_providers[n]) - 1)) = upi_providers[n] }
\* the first of them
UpiProviderAt(s, p) ==
    CHOOSE n \in UpiProvidersAt(s, p) : \A m \in UpiProvidersAt(s, p) : n <= m

\* upi_pattern = [a-zA-Z0-9.\-_]{2,256}@(oksbi|okaxis|...), re.IGNORECASE
upi_pattern(s, i) ==
    LET r == Run(s, i, UpiLocalChars, 256)
    IN  IF r >= 2 /\ At(s, i + r) = "@" /\ UpiProvidersAt(s, i + r + 1) # {}
        THEN i + r + Len(upi_providers[UpiProviderAt(s, i + r + 1)]) ELSE 0
\* re.findall(upi_pattern, s): the pattern has one group, so findall returns
\* the text of the group of each match, not the match
FindAllUpiGroup(s) ==
    LET spans == FindSpans(s, upi_pattern)
    IN  [n \in 1..Len(spans) |->
            LET at == spans[n][1] + Run(s, spans[n][1], UpiLocalChars, 256)
            IN  SubSeq(s, at + 1, spans[n][2])]

\* upi_pattern_broad = [a-zA-Z0-9.\-_]{2,256}@[a-zA-Z]{2,64}
upi_pattern_broad(s, i) ==
    LET r == Run(s, i, UpiLocalChars, 256)
        d == Run(s, i + r + 1, AlphaChars, 64)
    IN  IF r >= 2 /\ At(s, i + r) = "@" /\ d >= 2 THEN i + r + d ELSE 0

UrlHostChars == AlphaChars \cup DigitChars \cup Chars("-@:%._+~#=")     \* [-a-zA-Z0-9@:%._\+~#=]
UrlTldChars == AlphaChars \cup DigitChars \cup Chars("()")              \* [a-zA-Z0-9()]
UrlTailChars == AlphaChars \cup DigitChars \cup Chars("-()@:%_+.~#?&/=")

\* (?:https?://|onion://|www\.), re.IGNORECASE: the position after it, or 0
UrlSchemeEnd(s, i) ==
    IF lower(Sub(s, i, i + 7)) = "https://" /\ Len(s) >= i + 7 THEN i + 8
    ELSE IF lower(Sub(s, i, i + 6)) = "http://" /\ Len(s) >= i + 6 THEN i + 7
    ELSE IF lower(Sub(s, i, i + 7)) = "onion://" /\ Len(s) >= i + 7 THEN i + 8
    ELSE IF lower(Sub(s, i, i + 3)) = "www." /\ Len(s) >= i + 3 THEN i + 4
    ELSE 0

\* url_pattern = (?:https?://|onion://|www\.)[-a-zA-Z0-9@:%._\+~#=]{1,256}
\*               \.[a-zA-Z0-9()]{1,6}\b(?:[-a-zA-Z0-9()@:%_\+.~#?&/=]*), re.IGNORECASE
\* The host takes a characters, then the dot, then the TLD takes b characters
\* and a \b follows; re tries the largest a first and for it the largest b.
UrlSplits(s, p) ==
    { ab \in (1..Run(s, p, UrlHostChars, 256)) \X (1..6) :
          /\ At(s, p + ab[1]) = "."
          /\ Run(s, p + ab[1] + 1, UrlTldChars, 6) >= ab[2]
          /\ Boundary(s, p + ab[1] + 1 + ab[2]) }
url_pattern(s, i) ==
    LET p == UrlSchemeEnd(s, i)
    IN  IF p = 0 \/ UrlSplits(s, p) = {} THEN 0
        ELSE LET ab == CHOOSE x \in UrlSplits(s, p) :
                           \A y \in UrlSplits(s, p) :
                               y[1] < x[1] \/ (y[1] = x[1] /\ y[2] <= x[2])
                 q == p + ab[1] + 1 + ab[2]
             IN  q + Run(s, q, UrlTailChars, Len(s)) - 1

AlnumChars == AlphaChars \cup DigitChars                                \* [A-Z0-9], re.IGNORECASE

\* the literal w at s[p]; the same under re.IGNORECASE
LitAt(s, p, w) == SubSeq(s, p, Min(Len(s), p + Len(w) - 1)) = w
ILitAt(s, p, w) == lower(SubSeq(s, p, Min(Len(s), p + Len(w) - 1))) = lower(w)

\* (?:w1|w2|...) of literals under re.IGNORECASE at s[i]: for each alternative
\* the position after it, or 0 when it does not match
AltEnds(s, i, ws) == [n \in 1..Len(ws) |-> IF ILitAt(s, i, ws[n]) THEN i + Len(ws[n]) ELSE 0]

\* (?:A1|A2|...)T: re tries the alternatives in order and keeps the first one
\* after which the rest T of the pattern matches.  ends[n] is the position
\* after alternative n (0: no match), T(s, p) the last index of the match of
\* the rest from s[p] (0: no match).
FirstAlt(s, ends, T(_, _)) ==
    LET ok == { n \in 1..Len(ends) : ends[n] # 0 /\ T(s, ends[n]) # 0 }
    IN  IF ok = {} THEN 0
        ELSE T(s, ends[CHOOSE n \in ok : \A m \in ok : n <= m])

\* C{lo,hi}\b from s[p] for a class C of word characters: the run must end
\* where the word ends, so only the whole run can match
WordRun(s, p, C, lo, hi) ==
    LET r == Run(s, p, C, hi)
    IN  IF r >= lo /\ Boundary(s, p + r) THEN p + r - 1 ELSE 0

\* email_pattern = \b[A-Za-z0-9._%+-]+@[A-Za-z0-9.-]+\.[A-Z|a-z]{2,}\b
EmailLocalChars == AlnumChars \cup Chars("._%+-")
EmailDomainChars == AlnumChars \cup Chars(".-")
EmailTldChars == AlphaChars \cup {"|"}
\* The domain takes a characters, then the dot, then the TLD takes b characters
\* and a \b follows; re tries the largest a first and for it the largest b.
EmailSplits(s, p) ==
    { ab \in (1..Run(s, p, EmailDomainChars, Len(s))) \X (2..Len(s)) :
          /\ At(s, p + ab[1]) = "."
          /\ Run(s, p + ab[1] + 1, EmailTldChars, Len(s)) >= ab[2]
          /\ Boundary(s, p + ab[1] + 1 + ab[2]) }
email_pattern(s, i) ==
    LET r == Run(s, i, EmailLocalChars, Len(s))
        p == i + r + 1
    IN  IF ~Boundary(s, i) \/ r = 0 \/ At(s, i + r) # "@" \/ EmailSplits(s, p) = {} THEN 0
        ELSE LET ab == CHOOSE x \in EmailSplits(s, p) :
                           \A y \in EmailSplits(s, p) :
                               y[1] < x[1] \/ (y[1] = x[1] /\ y[2] <= x[2])
             IN  p + ab[1] + ab[2]

\* credit_card_pattern = \b(?:\d{4}[-\s]?){3}\d{4}\b|\b\d{16}\b
credit_card_pattern(s, i) ==
    LET p1 == Opt(s, i + 4, SepChars)
        p2 == Opt(s, p1 + 4, SepChars)
        p3 == Opt(s, p2 + 4, SepChars)
    IN  IF /\ Boundary(s, i) /\ DigitsAt(s, i, 4) /\ DigitsAt(s, p1, 4) /\ DigitsAt(s, p2, 4)
           /\ DigitsAt(s, p3, 4) /\ Boundary(s, p3 + 4)
        THEN p3 + 3
        ELSE IF Boundary(s, i) /\ DigitsAt(s, i, 16) /\ Boundary(s, i + 16) THEN i + 15
        ELSE 0

\* the filter of credit_cards to valid_credit_cards (main.py:181-195)
IsValidCreditCard(cc) ==
    LET digits == OnlyDigits(cc)
        first_digit == At(digits, 1)
        first_two == Sub(digits, 1, 2)
    IN  /\ Len(digits) = 16
        /\ \/ first_digit = "4" \/ first_digit = "5"
           \/ first_two \in {"34", "37", "65"}
           \/ first_two \in {"60", "64"}
           \/ Sub(digits, 1, 4) = "6011"
        /\ digits # "0000000000000000"

\* bitcoin_pattern_legacy = \b[13][a-km-zA-HJ-NP-Z1-9]{25,34}\b
Base58Chars == (AlnumChars \ Chars("lIO0"))
bitcoin_pattern_legacy(s, i) ==
    IF Boundary(s, i) /\ At(s, i) \in Chars("13") THEN WordRun(s, i + 1, Base58Chars, 25, 34)
    ELSE 0

\* bitcoin_pattern_bech32 = \bbc1[a-zA-HJ-NP-Z0-9]{39,59}\b
Bech32Chars == (AlnumChars \ Chars("IO"))
bitcoin_pattern_bech32(s, i) ==
    IF Boundary(s, i) /\ LitAt(s, i, "bc1") THEN WordRun(s, i + 3, Bech32Chars, 39, 59)
    ELSE 0

\* telegram_pattern = @\w{3,32}\b
telegram_pattern(s, i) ==
    IF At(s, i) = "@" THEN WordRun(s, i + 1, WordChars, 3, 32) ELSE 0

\* tracking_pattern = \b(?:DH|AMZ|UPS|FEDEX|1Z)[\s-]*\d{6,20}\b, re.IGNORECASE
tracking_prefixes == << "DH", "AMZ", "UPS", "FEDEX", "1Z" >>
TrackingTail(s, p) == WordRun(s, p + Run(s, p, SepChars, Len(s)), DigitChars, 6, 20)
tracking_pattern(s, i) ==
    IF Boundary(s, i) THEN FirstAlt(s, AltEnds(s, i, tracking_prefixes), TrackingTail) ELSE 0

\* id_pattern = \b(?:TXN|ORD|ID|REF|CASE|EMP|CUS|EXT|SBI|AMZ|WIN|CB|LOAN|KYC|FRD|BILL)
\*              [\-\s]?[A-Z0-9]{4,20}\b, re.IGNORECASE
id_prefixes ==
    << "TXN", "ORD", "ID", "REF", "CASE", "EMP", "CUS", "EXT", "SBI", "AMZ", "WIN", "CB",
       "LOAN", "KYC", "FRD", "BILL" >>
IdTail(s, p) == WordRun(s, Opt(s, p, SepChars), AlnumChars, 4, 20)
id_pattern(s, i) ==
    IF Boundary(s, i) THEN FirstAlt(s, AltEnds(s, i, id_prefixes), IdTail) ELSE 0

\* order_pattern = \b(?:ORDER|ORDERID|ORDER\s*NO|ORDER#|OID)[\s#-]*[A-Z0-9]{6,20}\b,
\*                 re.IGNORECASE
OrderSepChars == SepChars \cup {"#"}
OrderEnds(s, i) ==
    LET no == i + 5 + Run(s, i + 5, SpaceChars, Len(s))
    IN  << IF ILitAt(s, i, "ORDER") THEN i + 5 ELSE 0,
           IF ILitAt(s, i, "ORDERID") THEN i + 7 ELSE 0,
           IF ILitAt(s, i, "ORDER") /\ ILitAt(s, no, "NO") THEN no + 2 ELSE 0,
           IF ILitAt(s, i, "ORDER#") THEN i + 6 ELSE 0,
           IF ILitAt(s, i, "OID") THEN i + 3 ELSE 0 >>
OrderTail(s, p) == WordRun(s, p + Run(s, p, OrderSepChars, Len(s)), AlnumChars, 6, 20)
order_pattern(s, i) ==
    IF Boundary(s, i) THEN FirstAlt(s, OrderEnds(s, i), OrderTail) ELSE 0

\* aadhar_pattern = \b\d{4}\s?\d{4}\s?\d{4}\b
aadhar_pattern(s, i) ==
    LET p1 == Opt(s, i + 4, SpaceChars)
        p2 == Opt(s, p1 + 4, SpaceChars)
    IN  IF /\ Boundary(s, i) /\ DigitsAt(s, i, 4) /\ DigitsAt(s, p1, 4) /\ DigitsAt(s, p2, 4)
           /\ Boundary(s, p2 + 4)
        THEN p2 + 3 ELSE 0

\* pan_pattern = \b[A-Z]{5}[0-9]{4}[A-Z]{1}\b
pan_pattern(s, i) ==
    IF /\ Boundary(s, i)
       /\ \A j \in 0..4 : At(s, i + j) \in UpperChars
       /\ DigitsAt(s, i + 5, 4)
       /\ At(s, i + 9) \in UpperChars
       /\ Boundary(s, i + 10)
    THEN i + 9 ELSE 0

\* ifsc_pattern = \b[A-Z]{4}0[A-Z0-9]{6}\b
ifsc_pattern(s, i) ==
    IF /\ Boundary(s, i)
       /\ \A j \in 0..3 : At(s, i + j) \in UpperChars
       /\ At(s, i + 4) = "0"
       /\ \A j \in 5..10 : At(s, i + j) \in UpperChars \cup DigitChars
       /\ Boundary(s, i + 11)
    THEN i + 10 ELSE 0

-----------------------------------------------------------------------------
(* EntityExtractor: extract_entities                                       *)

\* the characters of the texts in code-point order
CodePointOrder ==
    " !#$%&'()*+,-./0123456789:;<=>?@ABCDEFGHIJKLMNOPQRSTUVWXYZ[]^_abcdefghijklmnopqrstuvwxyz{|}~"
Ord(c) == CHOOSE k \in 1..Len(CodePointOrder) : At(CodePointOrder, k) = c
\* a < b for two str values
StrLess(a, b) ==
    \E n \in 0..Min(Len(a), Len(b)) :
        /\ Sub(a, 1, n) = Sub(b, 1, n)
        /\ \/ n = Len(a) /\ n < Len(b)
           \/ n < Len(a) /\ n < Len(b) /\ Ord(At(a, n + 1)) < Ord(At(b, n + 1))

ToSet(xs) == { xs[n] : n \in 1..Len(xs) }
\* sorted(list(S)) for a set S of str
RECURSIVE SortedList(_)
SortedList(S) ==
    IF S = {} THEN << >>
    ELSE LET m == CHOOSE x \in S : \A y \in S : y = x \/ StrLess(x, y)
         IN  << m >> \o SortedList(S \ {m})

\* norm (main.py:209-212)
NormalizePhone(p) ==
    LET norm == OnlyDigits(p)
    IN  IF Len(norm) = 10 /\ At(norm, 1) \in Chars("6789") THEN "91" \o norm ELSE norm

\* A loop that remembers the surface strings it has seen, not their normalized
\* forms.
CleanPhones_by_surface(all_phones) ==
    LET f[n \in 0..Len(all_phones)] ==
            IF n = 0 THEN [seen_phones |-> {}, clean_phones |-> << >>]
            ELSE LET norm == NormalizePhone(all_phones[n])
                     surface == strip(all_phones[n])
                 IN  IF surface \notin f[n - 1].seen_phones /\ Len(norm) >= 10
                     THEN [seen_phones |-> f[n - 1].seen_phones \cup {surface},
                           clean_phones |-> Append(f[n - 1].clean_phones, surface)]
                     ELSE f[n - 1]
    IN  f[Len(all_phones)]

\* the loop over all_phones: seen_phones and clean_phones after it
CleanPhones(all_phones) ==
    LET f[n \in 0..Len(all_phones)] ==
            IF n = 0 THEN [seen_phones |-> {}, clean_phones |-> << >>]
            ELSE LET norm == NormalizePhone(all_phones[n])
                 IN  IF norm \notin f[n - 1].seen_phones /\ Len(norm) >= 10
                     THEN [seen_phones |-> f[n - 1].seen_phones \cup {norm},
                           clean_phones |-> Append(f[n - 1].clean_phones, strip(all_phones[n]))]
                     ELSE f[n - 1]
    IN  f[Len(all_phones)]

\* the loop over banks_raw: clean_banks after it
CleanBanks(banks_raw, phones) ==
    LET is_phone(b) == \E n \in 1..Len(phones.clean_phones) :
                           LET phone_digits == OnlyDigits(phones.clean_phones[n])
                           IN  Contains(b, phone_digits) \/ Contains(phone_digits, b)
        keep(b) == Len(b) # 12 /\ ~is_phone(b) /\ b \notin phones.seen_phones
    IN  SelectSeq(banks_raw, keep)

suspicious_keywords_list ==
    << "urgent", "verify", "block", "suspend", "kyc", "pan", "aadhar",
       "win", "lottery", "expired", "otp", "pin", "cvv", "expiry", "code",
       "cbi", "police", "customs", "drugs", "seized", "arrest", "warrant",
       "electricity", "bill", "disconnect", "prepaid", "task", "cashback",
       "account", "compromised", "fraud", "unauthorized", "transaction",
       "claim", "prize", "winner", "selected", "lucky", "offer", "limited" >>

\* list(set([word for word in suspicious_keywords_list if word in text.lower()])):
\* the words found, in the order in which the set is iterated.  That order is
\* not fixed by the language (it follows the string hashes of the process);
\* set_order is a list of all the keywords in the order a set would yield them.
found_keywords(t, set_order) ==
    LET text_lower == lower(t)
        found(word) == Contains(word, text_lower)
    IN  SelectSeq(set_order, found)

\* the keys of the dict extract_entities returns, in the order of the dict
CategoryList ==
    << "phoneNumbers", "bankAccounts", "upiIds", "phishingLinks", "emailAddresses",
       "creditCards", "bitcoinAddresses", "telegramIds", "trackingNumbers", "ids",
       "aadharNumbers", "panNumbers", "ifscCodes", "suspiciousKeywords" >>
Categories == ToSet(CategoryList)

\* extract_entities(text): a dict from category name to list of str
extract_entities(text, set_order) ==
    IF text = None \/ text = Some("") THEN << >>          \* {}
    ELSE LET t == text[1]
             upis_narrow == FindAllUpiGroup(t)
             upis == IF upis_narrow = << >> THEN FindAll(t, upi_pattern_broad) ELSE upis_narrow
             urls == FindAll(t, url_pattern)
             all_phones == FindAll(t, phone_pattern_indian) \o FindAll(t, phone_pattern_us)
                           \o FindAll(t, phone_pattern_tollfree) \o FindAll(t, phone_intl)
             phones == CleanPhones(all_phones)
             clean_banks == CleanBanks(FindAll(t, bank_account_pattern), phones)
             valid_credit_cards == SelectSeq(FindAll(t, credit_card_pattern), IsValidCreditCard)
             bitcoins == FindAll(t, bitcoin_pattern_legacy) \o FindAll(t, bitcoin_pattern_bech32)
             ids_found == FindAll(t, id_pattern)
             orders == FindAll(t, order_pattern)
         IN  [phoneNumbers |-> SortedList(ToSet(phones.clean_phones)),
              bankAccounts |-> SortedList(ToSet(clean_banks)),
              upiIds |-> SortedList(ToSet(upis)),
              phishingLinks |-> SortedList(ToSet(urls)),
              emailAddresses |-> SortedList(ToSet(FindAll(t, email_pattern))),
              creditCards |-> SortedList(ToSet(valid_credit_cards)),
              bitcoinAddresses |-> SortedList(ToSet(bitcoins)),
              telegramIds |-> SortedList(ToSet(FindAll(t, telegram_pattern))),
              trackingNumbers |-> SortedList(ToSet(FindAll(t, tracking_pattern))),
              ids |-> SortedList(ToSet(ids_found \o orders)),
              aadharNumbers |-> SortedList(ToSet(FindAll(t, aadhar_pattern))),
              panNumbers |-> SortedList(ToSet(FindAll(t, pan_pattern))),
              ifscCodes |-> SortedList(ToSet(FindAll(t, ifsc_pattern))),
              suspiciousKeywords |-> found_keywords(t, set_order)]

\* d.get(k) / d.get(k, []) for a dict of lists: the empty list stands for a missing key
Get(d, k) == IF k \in DOMAIN d THEN d[k] ELSE << >>

-----------------------------------------------------------------------------
(* Reply generation                                                        *)

\* " and ".join(missing[:2]) if missing else "details"
OfflineAsk(known_entities) ==
    LET missing == (IF Get(known_entities, "bankAccounts") = << >> THEN << "bank account" >> ELSE << >>)
                   \o (IF Get(known_entities, "upiIds") = << >> THEN << "UPI ID" >> ELSE << >>)
                   \o (IF Get(known_entities, "phishingLinks") = << >> THEN << "link" >> ELSE << >>)
    IN  IF missing = << >> THEN "details"
        ELSE IF Len(missing) = 1 THEN missing[1]
        ELSE missing[1] \o " and " \o missing[2]

\* (the source has an em dash in the English "parent" reply; it is written "-" here)
_offline_agent_reply(current_message, known_entities, persona_key, language) ==
    LET ask == OfflineAsk(known_entities)
    IN  IF language = "hinglish"
        THEN IF persona_key = "student"
             THEN "Bhai mujhe samajh nahi aaya. " \o ask \o " bhejo na, phir main dekhta hoon."
             ELSE IF persona_key = "skeptic"
             THEN "Sir, pehle aap apna official ID aur " \o ask \o " share karo. Company policy hai."
             ELSE IF persona_key = "parent"
             THEN "Arre ruk jao, bacche chillaa rahe hain. " \o ask \o " dobara bhej do."
             ELSE "Beta, mujhe phone me nahi mil raha. " \o ask \o " ek baar phir bhej do."
        ELSE IF persona_key = "student"
             THEN "Bro I'm interested but I have 0 balance. Send your " \o ask \o " and explain again."
             ELSE IF persona_key = "skeptic"
             THEN "Before we proceed, share your official authorization and the " \o ask \o "."
             ELSE IF persona_key = "parent"
             THEN "Hold on-I'm busy right now. Can you resend the " \o ask \o "?"
             ELSE "I am not good with these things. Please send the " \o ask \o " again."

GenericReply == "I didn't catch that. Could you say it again?"

\* generate_agent_reply(...) with the gemini_model flag and the outcome `llm` of
\* chat.send_message
generate_agent_reply(history, current_message, known_entities, persona_key, language, model, llm) ==
    IF ~model THEN _offline_agent_reply(current_message, known_entities, persona_key, language)
    ELSE IF llm.raises THEN GenericReply
    ELSE strip(llm.text)

-----------------------------------------------------------------------------
(* Requests the model draws                                                *)

MaxRequests == 2        \* /analyze requests per behaviour
MaxTicks == 2           \* clock advances per behaviour
TickSeconds == 90       \* seconds per clock advance

SessionIds == {"s1", "s2"}

\* Message (sender, text); audioBase64 and timestamp have no effect on the
\* handler: transcribe_audio returns "" and the text stays as sent.
Msg(sender, text) == [sender |-> sender, text |-> text]

MessageTexts ==
    { None,
      Some("hello how are you"),
      Some("URGENT: account blocked. Call 9876543210. UPI: x@paytm"),
      Some("police arrest: lottery, otp, click http://bit.ly/x1 bhai") }

Histories ==
    { << >>,
      << Msg("scammer", Some("Your a/c 50100234567891 is blocked")),
         Msg("user", Some("Which bank?")),
         Msg("scammer", None) >> }

AnalyzeRequests ==
    [sessionId : SessionIds, message : { Msg("scammer", t) : t \in MessageTexts },
     conversationHistory : Histories]

MLOutcomes == { MLPredicts("ham"), MLPredicts("Scam") }
RouteOutcomes == { LLMRaises, LLMAnswers("Student|Hinglish") }
ReplyOutcomes == { LLMRaises, LLMAnswers(" Oh dear, which bank is this? ") }

\* the orders in which the process may iterate a set of the suspicious keywords
Reverse(xs) == [n \in 1..Len(xs) |-> xs[Len(xs) + 1 - n]]
SetOrders == { suspicious_keywords_list, Reverse(suspicious_keywords_list) }

\* " ".join(xs) for a list of str
RECURSIVE Join(_)
Join(xs) ==
    IF xs = << >> THEN ""
    ELSE IF Len(xs) = 1 THEN xs[1]
    ELSE xs[1] \o " " \o Join(Tail(xs))

\* (message.text or "") + " " + " ".join([m.text or "" for m in history])
FullText(message, history) ==
    OrEmpty(message.text) \o " " \o Join([n \in 1..Len(history) |-> OrEmpty(history[n].text)])

-----------------------------------------------------------------------------
(* SessionStore + ConversationOrchestrator: the /analyze handler           *)

DisengageReply == "I don't think I am interested. Thank you."

elicitation_keywords ==
    << "phone", "number", "contact", "email", "account", "upi", "id", "send me" >>

NewSession(p_key, lang, t) ==
    [persona |-> p_key, language |-> lang, start_time |-> t, questions_asked |-> 0,
     red_flags |-> << >>, elicitation_attempts |-> 0, turn_count |-> 0]

\* An append that does not look whether the label is there already.
AddFlag_appends(red_flags, cond, label) ==
    IF cond THEN Append(red_flags, label) ELSE red_flags

\* if label not in red_flags: red_flags.append(label), done when cond holds
AddFlag(red_flags, cond, label) ==
    IF cond /\ label \notin ToSet(red_flags) THEN Append(red_flags, label) ELSE red_flags

Max(a, b) == IF a >= b THEN a ELSE b

\* what the handler reads off the current message text (main.py:1305-1321)
MessageHits(text) ==
    LET msg_lower == lower(OrEmpty(text))
    IN  [urgency |-> Contains("urgent", msg_lower) \/ Contains("immediately", msg_lower),
         otp |-> Contains("otp", msg_lower) \/ Contains("pin", msg_lower),
         link |-> Contains("http", msg_lower) \/ Contains("link", msg_lower)
                  \/ Contains(".com", msg_lower),
         elicitation |-> AnyIn(elicitation_keywords, msg_lower)]

\* questions_count (main.py:1299-1300)
QuestionsCount(history) ==
    Cardinality({ n \in 1..Len(history) :
                      /\ history[n].sender \in {"user", "agent"}
                      /\ Contains("?", OrEmpty(history[n].text)) })

\* The functions of the request alone, tabulated over the requests the model draws.
MessageHitsOf == [t \in MessageTexts |-> MessageHits(t)]
QuestionsCountOf == [h \in Histories |-> QuestionsCount(h)]
predict_scam_of ==
    [t \in MessageTexts, c \in BOOLEAN, v \in BOOLEAN, ml \in MLOutcomes |->
        predict_scam(t, c, v, ml)]
select_persona_and_language_of ==
    [t \in MessageTexts, m \in BOOLEAN, llm \in RouteOutcomes |->
        select_persona_and_language(t, m, llm)]
extract_entities_of ==
    [t \in MessageTexts, h \in Histories, o \in SetOrders |->
        extract_entities(Some(FullText(Msg("scammer", t), h)), o)]

\* A session update that also re-routes the persona and the language from the
\* current message on every request.
UpdateSession_reroutes(current_state, request) ==
    LET turn_count == Len(request.conversationHistory) + 1
        hits == MessageHitsOf[request.message.text]
        route == select_persona_and_language_of[request.message.text, FALSE, LLMRaises]
        f1 == AddFlag(current_state.red_flags, hits.urgency, "Urgency")
        f2 == AddFlag(f1, hits.otp, "OTP Request")
        f3 == AddFlag(f2, hits.link, "Suspicious Link")
        f4 == AddFlag(f3, turn_count <= 2, "Unsolicited Contact")
    IN  [current_state EXCEPT
            !.persona = route[1],
            !.language = route[2],
            !.turn_count = turn_count,
            !.questions_asked =
                Max(QuestionsCountOf[request.conversationHistory], current_state.questions_asked),
            !.red_flags = f4,
            !.elicitation_attempts = IF hits.elicitation THEN @ + 1 ELSE @]

\* A session update that writes the counter from the value the session was
\* created with, not from the value it holds.
UpdateSession_stale_counter(current_state, request) ==
    LET turn_count == Len(request.conversationHistory) + 1
        hits == MessageHitsOf[request.message.text]
        f1 == AddFlag(current_state.red_flags, hits.urgency, "Urgency")
        f2 == AddFlag(f1, hits.otp, "OTP Request")
        f3 == AddFlag(f2, hits.link, "Suspicious Link")
        f4 == AddFlag(f3, turn_count <= 2, "Unsolicited Contact")
    IN  [current_state EXCEPT
            !.turn_count = turn_count,
            !.questions_asked =
                Max(QuestionsCountOf[request.conversationHistory], current_state.questions_asked),
            !.red_flags = f4,
            !.elicitation_attempts = IF hits.elicitation THEN 0 + 1 ELSE @]

\* A session update that counts the requests: the turn count goes up by one.
UpdateSession_increments_turn(current_state, request) ==
    LET turn_count == Len(request.conversationHistory) + 1
        hits == MessageHitsOf[request.message.text]
        f1 == AddFlag(current_state.red_flags, hits.urgency, "Urgency")
        f2 == AddFlag(f1, hits.otp, "OTP Request")
        f3 == AddFlag(f2, hits.link, "Suspicious Link")
        f4 == AddFlag(f3, turn_count <= 2, "Unsolicited Contact")
    IN  [current_state EXCEPT
            !.turn_count = @ + 1,
            !.questions_asked =
                Max(QuestionsCountOf[request.conversationHistory], current_state.questions_asked),
            !.red_flags = f4,
            !.elicitation_attempts = IF hits.elicitation THEN @ + 1 ELSE @]

\* A session update that takes the question count of the supplied history as it is.
UpdateSession_recounts_questions(current_state, request) ==
    LET turn_count == Len(request.conversationHistory) + 1
        hits == MessageHitsOf[request.message.text]
        f1 == AddFlag(current_state.red_flags, hits.urgency, "Urgency")
        f2 == AddFlag(f1, hits.otp, "OTP Request")
        f3 == AddFlag(f2, hits.link, "Suspicious Link")
        f4 == AddFlag(f3, turn_count <= 2, "Unsolicited Contact")
    IN  [current_state EXCEPT
            !.turn_count = turn_count,
            !.questions_asked =
                QuestionsCountOf[request.conversationHistory],
            !.red_flags = f4,
            !.elicitation_attempts = IF hits.elicitation THEN @ + 1 ELSE @]

\* A session update that starts the red flags of every request from the empty list.
UpdateSession_resets_flags(current_state, request) ==
    LET turn_count == Len(request.conversationHistory) + 1
        hits == MessageHitsOf[request.message.text]
        f1 == AddFlag(<< >>, hits.urgency, "Urgency")
        f2 == AddFlag(f1, hits.otp, "OTP Request")
        f3 == AddFlag(f2, hits.link, "Suspicious Link")
        f4 == AddFlag(f3, turn_count <= 2, "Unsolicited Contact")
    IN  [current_state EXCEPT
            !.turn_count = turn_count,
            !.questions_asked =
                Max(QuestionsCountOf[request.conversationHistory], current_state.questions_asked),
            !.red_flags = f4,
            !.elicitation_attempts = IF hits.elicitation THEN @ + 1 ELSE @]

\* A session update that adds one attempt for every elicitation keyword in the message.
UpdateSession_counts_keywords(current_state, request) ==
    LET turn_count == Len(request.conversationHistory) + 1
        hits == MessageHitsOf[request.message.text]
        f1 == AddFlag(current_state.red_flags, hits.urgency, "Urgency")
        f2 == AddFlag(f1, hits.otp, "OTP Request")
        f3 == AddFlag(f2, hits.link, "Suspicious Link")
        f4 == AddFlag(f3, turn_count <= 2, "Unsolicited Contact")
    IN  [current_state EXCEPT
            !.turn_count = turn_count,
            !.questions_asked =
                Max(QuestionsCountOf[request.conversationHistory], current_state.questions_asked),
            !.red_flags = f4,
            !.elicitation_attempts =
                @ + Cardinality({ n \in 1..Len(elicitation_keywords) :
                                      Contains(elicitation_keywords[n],
                                               lower(OrEmpty(request.message.text))) })]

\* the session after "Update turn count and metrics" (main.py:1295-1322)
UpdateSession(current_state, request) ==
    LET turn_count == Len(request.conversationHistory) + 1
        hits == MessageHitsOf[request.message.text]
        f1 == AddFlag(current_state.red_flags, hits.urgency, "Urgency")
        f2 == AddFlag(f1, hits.otp, "OTP Request")
        f3 == AddFlag(f2, hits.link, "Suspicious Link")
        f4 == AddFlag(f3, turn_count <= 2, "Unsolicited Contact")
    IN  [current_state EXCEPT
            !.turn_count = turn_count,
            !.questions_asked =
                Max(QuestionsCountOf[request.conversationHistory], current_state.questions_asked),
            !.red_flags = f4,
            !.elicitation_attempts = IF hits.elicitation THEN @ + 1 ELSE @]

\* An HTTP response of /analyze: 200 {"status": "success", "reply": reply}, or
\* 500 from the handler's except clause.
Success(reply) == [code |-> 200, status |-> "success", reply |-> reply]
Failure == [code |-> 500, status |-> "", reply |-> ""]
NoResponse == [code |-> 0, status |-> "", reply |-> ""]

\* The try block of the handler is an operator of `request`, the session
\* store `store`, the time t, and what its collaborators return:
\*   current_msg_is_scam  predict_scam(request.message.text)
\*   all_entities         extract_entities(full_text)
\*   route                select_persona_and_language(request.message.text)
\*   model, reply_llm     the gemini_model flag and what the reply LLM call does

\* A try block that creates or updates the session before it looks at is_scam,
\* so that a request that is not scam-like leaves its mark on the store.
analyze_try_tracks_all(request, store, t, current_msg_is_scam, all_entities, route, model, reply_llm) ==
    LET sid == request.sessionId
        text == request.message.text
        history == request.conversationHistory
        has_history == Len(history) > 0
        is_scam == current_msg_is_scam \/ has_history
        created == sid \notin DOMAIN store
        current_state == IF created THEN NewSession(route[1], route[2], t) ELSE store[sid]
        updated == UpdateSession(current_state, request)
        tracked == [k \in DOMAIN store \cup {sid} |-> IF k = sid THEN updated ELSE store[k]]
    IN  IF ~is_scam
        THEN [store |-> tracked, response |-> Success(DisengageReply), is_scam |-> FALSE,
              task |-> FALSE, entities |-> all_entities, routed |-> created, generated |-> FALSE]
        ELSE [store |-> tracked,
              response |-> Success(generate_agent_reply(history, text, all_entities,
                                       updated.persona, updated.language, model, reply_llm)),
              is_scam |-> TRUE, task |-> TRUE, entities |-> all_entities,
              routed |-> created, generated |-> TRUE]

\* The try block of the handler (main.py:1255-1351): the store after it, the
\* response, whether a check_and_send_callback task was added, and which
\* collaborators were called.
analyze_try(request, store, t, current_msg_is_scam, all_entities, route, model, reply_llm) ==
    LET sid == request.sessionId
        text == request.message.text
        history == request.conversationHistory
        has_history == Len(history) > 0
        is_scam == current_msg_is_scam \/ has_history
        created == sid \notin DOMAIN store
        current_state == IF created THEN NewSession(route[1], route[2], t) ELSE store[sid]
        updated == UpdateSession(current_state, request)
    IN  IF ~is_scam
        THEN [store |-> store, response |-> Success(DisengageReply), is_scam |-> FALSE,
              task |-> FALSE, entities |-> all_entities, routed |-> FALSE, generated |-> FALSE]
        ELSE [store |-> [k \in DOMAIN store \cup {sid} |-> IF k = sid THEN updated ELSE store[k]],
              response |-> Success(generate_agent_reply(history, text, all_entities,
                                       updated.persona, updated.language, model, reply_llm)),
              is_scam |-> TRUE, task |-> TRUE, entities |-> all_entities,
              routed |-> created, generated |-> TRUE]

\* The handler (main.py:1250-1355) with its collaborators: an exception in the
\* try block (predict_scam on an absent text) becomes HTTP 500, with the
\* store as it was and no task added.
\*   ml, route_llm, reply_llm: what the classifier and the two LLM calls do;
\*   set_order: the order in which a set of keywords is iterated.
analyze(request, store, t, classifier, vectorizer, model, ml, route_llm, reply_llm, set_order) ==
    IF predict_scam_of[request.message.text, classifier, vectorizer, ml].raised
    THEN [store |-> store, response |-> Failure, is_scam |-> FALSE, task |-> FALSE,
          entities |-> << >>, routed |-> FALSE, generated |-> FALSE]
    ELSE analyze_try(request, store, t,
                     predict_scam_of[request.message.text, classifier, vectorizer, ml].value,
                     extract_entities_of[request.message.text, request.conversationHistory,
                                         set_order],
                     select_persona_and_language_of[request.message.text, model, route_llm],
                     model, reply_llm)

-----------------------------------------------------------------------------
(* CallbackDecisionEngine: check_and_send_callback                         *)

\* A gate that looks at the message count only.
CallbackGate_count_only(history, analysis_result) ==
    analysis_result.scam_detected /\ Len(history) + 1 >= 4

\* is_scam and (total_messages >= 4 or has_critical_info)   (main.py:1140-1144, 1192)
CallbackGate(history, analysis_result) ==
    LET total_messages == Len(history) + 1
        is_scam == analysis_result.scam_detected
        entities == analysis_result.entities
        has_critical_info == \/ Get(entities, "bankAccounts") # << >>
                             \/ Get(entities, "upiIds") # << >>
                             \/ Get(entities, "phishingLinks") # << >>
    IN  is_scam /\ (total_messages >= 4 \/ has_critical_info)

\* A lookup that finds no session: it answers the default.
StateGet_always_default(store, session_id, key, default) == default

\* A lookup that reads the session the store lists first, whatever the id.
StateGet_first_session(store, session_id, key, default) ==
    IF DOMAIN store # {}
    THEN store[CHOOSE k \in DOMAIN store : \A j \in DOMAIN store : k = j \/ StrLess(k, j)][key]
    ELSE default

\* state.get(key, default) on the session of session_id, {} when there is none
StateGet(store, session_id, key, default) ==
    IF session_id \in DOMAIN store THEN store[session_id][key] ELSE default

\* A duration without the floor: the seconds elapsed, whatever they are.
EngagementDuration_no_floor(store, session_id, history, t) ==
    t - StateGet(store, session_id, "start_time", t)

\* engagement_duration (main.py:1148-1153)
EngagementDuration(store, session_id, history, t) ==
    LET start_time == StateGet(store, session_id, "start_time", t)
        engagement_duration == t - start_time
    IN  IF engagement_duration < 180 THEN 180 + (Len(history) + 1) * 5
        ELSE engagement_duration

\* confidence_level in hundredths (main.py:1155-1157, 1233)
EntityCount(entities) ==
    LET f[n \in 0..Len(CategoryList)] ==
            IF n = 0 THEN 0 ELSE f[n - 1] + Len(Get(entities, CategoryList[n]))
    IN  f[Len(CategoryList)]
ConfidenceLevel(entities) ==
    LET entity_count == EntityCount(entities)
    IN  IF entity_count > 0 THEN Min(95, 70 + entity_count * 5) ELSE 85

\* the keyword lists of the scam type cascade (main.py:1164-1184)
sextortion_keywords ==
    << "bitcoin", "crypto", "blackmail", "video", "extortion", "private videos" >>
digital_arrest_keywords ==
    << "police", "cbi", "arrest", "warrant", "court", "narcotics", "trafficking",
       "digital arrest" >>
courier_keywords == << "parcel", "courier", "dhl", "customs", "duty", "held at customs" >>
utility_keywords ==
    << "electricity", "power", "bill", "disconnect", "unpaid bill", "power cut" >>
kyc_keywords == << "kyc", "aadhaar", "pan card", "update kyc", "kyc update" >>
job_keywords ==
    << "job", "hiring", "work from home", "salary", "earn money", "employment",
       "urgent hiring" >>
loan_keywords ==
    << "loan", "credit", "loan approved", "pre-approved", "instant loan", "emi" >>
upi_keywords == << "upi", "cashback", "paytm", "phonepe", "google pay", "upi id" >>
lottery_keywords ==
    << "lottery", "winner", "prize", "won", "lucky draw", "congratulations you won" >>
bank_keywords ==
    << "bank", "sbi", "account compromised", "account blocked", "share otp",
       "unauthorized transaction" >>
phishing_keywords ==
    << "amazon", "flipkart", "order confirmed", "delivery", "click here", "claim prize",
       "iphone won" >>

\* A cascade that looks for the authority keywords before the extortion ones.
scam_type_authority_first(current_msg) ==
    LET full_text == lower(OrEmpty(current_msg.text))
    IN  IF AnyIn(digital_arrest_keywords, full_text) THEN "Digital Arrest"
        ELSE IF AnyIn(sextortion_keywords, full_text) THEN "Sextortion"
        ELSE IF AnyIn(courier_keywords, full_text) THEN "Courier Scam"
        ELSE IF AnyIn(utility_keywords, full_text) THEN "Utility Scam"
        ELSE IF AnyIn(kyc_keywords, full_text) THEN "KYC Scam"
        ELSE IF AnyIn(job_keywords, full_text) THEN "Job Scam"
        ELSE IF AnyIn(loan_keywords, full_text) THEN "Loan Scam"
        ELSE IF AnyIn(upi_keywords, full_text) THEN "UPI Fraud"
        ELSE IF AnyIn(lottery_keywords, full_text) THEN "Lottery Scam"
        ELSE IF AnyIn(bank_keywords, full_text) THEN "Bank Fraud"
        ELSE IF AnyIn(phishing_keywords, full_text) THEN "Phishing"
        ELSE "Unknown"

\* scam_type (main.py:1159-1185): the if/elif chain over the lower-cased text
\* of the current message
scam_type(current_msg) ==
    LET full_text == lower(OrEmpty(current_msg.text))
    IN  IF AnyIn(sextortion_keywords, full_text) THEN "Sextortion"
        ELSE IF AnyIn(digital_arrest_keywords, full_text) THEN "Digital Arrest"
        ELSE IF AnyIn(courier_keywords, full_text) THEN "Courier Scam"
        ELSE IF AnyIn(utility_keywords, full_text) THEN "Utility Scam"
        ELSE IF AnyIn(kyc_keywords, full_text) THEN "KYC Scam"
        ELSE IF AnyIn(job_keywords, full_text) THEN "Job Scam"
        ELSE IF AnyIn(loan_keywords, full_text) THEN "Loan Scam"
        ELSE IF AnyIn(upi_keywords, full_text) THEN "UPI Fraud"
        ELSE IF AnyIn(lottery_keywords, full_text) THEN "Lottery Scam"
        ELSE IF AnyIn(bank_keywords, full_text) THEN "Bank Fraud"
        ELSE IF AnyIn(phishing_keywords, full_text) THEN "Phishing"
        ELSE "Unknown"

\* the keys of extracted_intel (main.py:1196-1208)
IntelCategories ==
    { "phoneNumbers", "bankAccounts", "upiIds", "phishingLinks", "emailAddresses",
      "creditCards", "bitcoinAddresses", "telegramIds", "trackingNumbers", "ids" }

\* extracted_intel: extract_entities(all_text) of the request, by the keys above
\* (main.py:1193-1208)
ExtractedIntel(aggregated_entities) ==
    [c \in IntelCategories |-> Get(aggregated_entities, c)]

\* scam_type and extracted_intel tabulated over the requests the model draws
scam_type_of == [t \in MessageTexts |-> scam_type(Msg("scammer", t))]
extracted_intel_of ==
    [t \in MessageTexts, h \in Histories |->
        ExtractedIntel(extract_entities_of[t, h, suspicious_keywords_list])]

\* the payload (main.py:1187-1190, 1211-1234); agentNotes is given by the
\* values it is formatted from
CallbackPayload(store, session_id, history, current_msg, analysis_result, t) ==
    [sessionId |-> session_id,
     scamDetected |-> TRUE,
     totalMessagesExchanged |-> Len(history) + 1,
     engagementDurationSeconds |-> EngagementDuration(store, session_id, history, t),
     extractedIntelligence |-> extracted_intel_of[current_msg.text, history],
     scamType |-> scam_type_of[current_msg.text],
     confidenceLevel |-> ConfidenceLevel(analysis_result.entities),
     persona_used |-> StateGet(store, session_id, "persona", "Unknown"),
     lang_used |-> StateGet(store, session_id, "language", "Unknown"),
     questions_asked |-> StateGet(store, session_id, "questions_asked", (Len(history) + 1) \div 2),
     red_flags |-> LET red_flags == StateGet(store, session_id, "red_flags",
                                              << "Urgency", "OTP Request", "Suspicious Link" >>)
                   IN  SubSeq(red_flags, 1, Min(3, Len(red_flags)))]

-----------------------------------------------------------------------------
(* The server                                                              *)

RequestIds == 1..MaxRequests

Task(rid) == CHOOSE r \in inflight : r.rid = rid
InflightIds == { r.rid : r \in inflight }
Request(rid) == handled[rid].request

Init ==
    /\ scam_classifier \in BOOLEAN
    /\ tfidf_vectorizer = scam_classifier
    /\ gemini_model \in BOOLEAN
    /\ session_state = << >>
    /\ handled = << >>
    /\ inflight = {}
    /\ delivered = [rid \in RequestIds |-> NoResponse]
    /\ posted = [rid \in RequestIds |-> << >>]
    /\ log = [sent |-> 0, failed |-> 0]
    /\ now = 0
    /\ call = [fn |-> "none"]

\* POST /analyze: the handler runs to its return (it awaits nothing); the
\* response and the background task it added are left to the framework.
Analyze ==
    /\ Len(handled) < MaxRequests
    /\ \E request \in AnalyzeRequests, ml \in MLOutcomes,
          route_llm \in RouteOutcomes, reply_llm \in ReplyOutcomes, set_order \in SetOrders :
          \E r \in { analyze(request, session_state, now, scam_classifier, tfidf_vectorizer,
                             gemini_model, ml, route_llm, reply_llm, set_order) } :
              /\ session_state' = r.store
              /\ handled' = Append(handled, [request |-> request, is_scam |-> r.is_scam,
                                             raised |-> r.response.code = 500,
                                             routed |-> r.routed, generated |-> r.generated])
              /\ inflight' = inflight \cup
                     {[rid |-> Len(handled) + 1, pc |-> "respond", response |-> r.response,
                       task |-> r.task,
                       analysis_result |-> [scam_detected |-> TRUE, entities |-> r.entities]]}
    /\ UNCHANGED << scam_classifier, tfidf_vectorizer, gemini_model, delivered, posted, log,
                    now, call >>

\* A framework that starts the background task and holds the response back.
SendResponse_after_task ==
    \E r \in inflight :
        /\ r.pc = "respond"
        /\ delivered' = IF r.task THEN delivered ELSE [delivered EXCEPT ![r.rid] = r.response]
        /\ inflight' = IF r.task THEN (inflight \ {r}) \cup {[r EXCEPT !.pc = "callback"]}
                       ELSE inflight \ {r}
        /\ UNCHANGED << scam_classifier, tfidf_vectorizer, gemini_model, session_state,
                        handled, posted, log, now, call >>

\* The framework sends the response; background tasks run only after it.
SendResponse ==
    \E r \in inflight :
        /\ r.pc = "respond"
        /\ delivered' = [delivered EXCEPT ![r.rid] = r.response]
        /\ inflight' = IF r.task THEN (inflight \ {r}) \cup {[r EXCEPT !.pc = "callback"]}
                       ELSE inflight \ {r}
        /\ UNCHANGED << scam_classifier, tfidf_vectorizer, gemini_model, session_state,
                        handled, posted, log, now, call >>

\* A callback task that posts nothing when a report of an earlier request of
\* the same conversation was posted.
CheckAndSendCallback_once_per_session ==
    \E r \in inflight :
        /\ r.pc = "callback"
        /\ LET session_id == Request(r.rid).sessionId
               history == Request(r.rid).conversationHistory
               reported == \E o \in 1..Len(handled) :
                               Request(o).sessionId = session_id /\ posted[o] # << >>
           IN  IF CallbackGate(history, r.analysis_result) /\ ~reported
               THEN /\ posted' = [posted EXCEPT ![r.rid] =
                                     Append(@, CallbackPayload(session_state, session_id, history,
                                                               Request(r.rid).message,
                                                               r.analysis_result, now))]
                    /\ inflight' = (inflight \ {r}) \cup {[r EXCEPT !.pc = "posting"]}
               ELSE /\ posted' = posted
                    /\ inflight' = inflight \ {r}
        /\ UNCHANGED << scam_classifier, tfidf_vectorizer, gemini_model, session_state,
                        handled, delivered, log, now, call >>

\* check_and_send_callback up to `await client.post(...)`: the gate, and the
\* payload built from the session store as it is now.
CheckAndSendCallback ==
    \E r \in inflight :
        /\ r.pc = "callback"
        /\ LET session_id == Request(r.rid).sessionId
               history == Request(r.rid).conversationHistory
           IN  IF CallbackGate(history, r.analysis_result)
               THEN /\ posted' = [posted EXCEPT ![r.rid] =
                                     Append(@, CallbackPayload(session_state, session_id, history,
                                                               Request(r.rid).message,
                                                               r.analysis_result, now))]
                    /\ inflight' = (inflight \ {r}) \cup {[r EXCEPT !.pc = "posting"]}
               ELSE /\ posted' = posted
                    /\ inflight' = inflight \ {r}
        /\ UNCHANGED << scam_classifier, tfidf_vectorizer, gemini_model, session_state,
                        handled, delivered, log, now, call >>

\* The POST returns a response: its status is logged, the task ends.
PostReturns ==
    \E r \in inflight :
        /\ r.pc = "posting"
        /\ log' = [log EXCEPT !.sent = @ + 1]
        /\ inflight' = inflight \ {r}
        /\ UNCHANGED << scam_classifier, tfidf_vectorizer, gemini_model, session_state,
                        handled, delivered, posted, now, call >>

\* A failed POST that is sent once more before the task ends.
PostRaises_retries ==
    \E r \in inflight :
        /\ r.pc = "posting"
        /\ log' = [log EXCEPT !.failed = @ + 1]
        /\ posted' = [posted EXCEPT ![r.rid] = Append(@, @[1])]
        /\ inflight' = inflight \ {r}
        /\ UNCHANGED << scam_classifier, tfidf_vectorizer, gemini_model, session_state,
                        handled, delivered, now, call >>

\* A failed POST that discards the session of its conversation.
PostRaises_drops_session ==
    \E r \in inflight :
        /\ r.pc = "posting"
        /\ log' = [log EXCEPT !.failed = @ + 1]
        /\ session_state' = [k \in DOMAIN session_state \ {Request(r.rid).sessionId} |->
                                session_state[k]]
        /\ inflight' = inflight \ {r}
        /\ UNCHANGED << scam_classifier, tfidf_vectorizer, gemini_model,
                        handled, delivered, posted, now, call >>

\* The POST raises (connection error, 10 s timeout): except Exception logs
\* "Failed to send callback", the task ends.
PostRaises ==
    \E r \in inflight :
        /\ r.pc = "posting"
        /\ log' = [log EXCEPT !.failed = @ + 1]
        /\ inflight' = inflight \ {r}
        /\ UNCHANGED << scam_classifier, tfidf_vectorizer, gemini_model, session_state,
                        handled, delivered, posted, now, call >>

Tick ==
    /\ now < MaxTicks * TickSeconds
    /\ now' = now + TickSeconds
    /\ UNCHANGED << scam_classifier, tfidf_vectorizer, gemini_model, session_state,
                    handled, inflight, delivered, posted, log, call >>

Next == Analyze \/ SendResponse \/ CheckAndSendCallback \/ PostReturns \/ PostRaises \/ Tick

Spec == Init /\ [][Next]_vars

-----------------------------------------------------------------------------
(* The classifier on its own: predict_scam applied to one drawn input      *)

ClassifierTexts ==
    { None, Some(""), Some("hello how are you"), Some("Your BANK account"),
      Some("URGENT: account blocked. Call 9876543210. UPI: x@paytm"),
      Some("the spinning wheel"), Some("Credit  card"), Some("credit card offer"),
      Some("I sent the PARCEL"), Some("congratulations dear"), Some("call me back") }

ClassifierOutcomes ==
    { MLRaises } \cup
    { MLPredicts(l) : l \in {"scam", "Spam", "FRAUD", "1", "0", "ham", "scams", "not spam"} }

PureInit ==
    /\ session_state = << >>
    /\ handled = << >>
    /\ inflight = {}
    /\ delivered = [rid \in RequestIds |-> NoResponse]
    /\ posted = [rid \in RequestIds |-> << >>]
    /\ log = [sent |-> 0, failed |-> 0]
    /\ now = 0

InitClassify ==
    /\ PureInit
    /\ scam_classifier \in BOOLEAN
    /\ tfidf_vectorizer \in BOOLEAN
    /\ gemini_model = FALSE
    /\ call \in [fn : {"predict_scam"}, text : ClassifierTexts, ml : ClassifierOutcomes,
                 done : {FALSE}, result : {Raised}]

PredictScam ==
    /\ call.fn = "predict_scam" /\ ~call.done
    /\ call' = [call EXCEPT !.done = TRUE,
                            !.result = predict_scam(call.text, scam_classifier,
                                                    tfidf_vectorizer, call.ml)]
    /\ UNCHANGED << scam_classifier, tfidf_vectorizer, gemini_model, session_state,
                    handled, inflight, delivered, posted, log, now >>

NextClassify == PredictScam

SpecClassify == InitClassify /\ [][NextClassify]_vars

-----------------------------------------------------------------------------
(* The router on its own                                                   *)

RouteTexts ==
    { None, Some("hello"), Some("You are under ARREST, claim your lottery"),
      Some("lottery offer bhai"), Some("your kyc is pending"), Some("POLICE case"),
      Some("Kar do payment jaldi, bank account blocked"), Some("earn salary from home"),
      Some("company update"), Some("pay the electricity bill, haan?") }

RouterOutcomes ==
    { LLMRaises } \cup
    { LLMAnswers(a) : a \in {"skeptic|hinglish", " Student|English ", "grandma", "unsure|hindi",
                             "parent|", "|hinglish", "skeptic|french", "I pick student | HINDI",
                             "grandparent|english"} }

InitRoute ==
    /\ PureInit
    /\ scam_classifier = FALSE
    /\ tfidf_vectorizer = FALSE
    /\ gemini_model \in BOOLEAN
    /\ call \in [fn : {"select_persona_and_language", "_heuristic_persona_and_language"},
                 text : RouteTexts, llm : RouterOutcomes, done : {FALSE},
                 result : {<< "", "" >>}]

SelectPersonaAndLanguage ==
    /\ call.fn = "select_persona_and_language" /\ ~call.done
    /\ call' = [call EXCEPT !.done = TRUE,
                            !.result = select_persona_and_language(call.text, gemini_model,
                                                                   call.llm)]
    /\ UNCHANGED << scam_classifier, tfidf_vectorizer, gemini_model, session_state,
                    handled, inflight, delivered, posted, log, now >>

HeuristicPersonaAndLanguage ==
    /\ call.fn = "_heuristic_persona_and_language" /\ ~call.done
    /\ call' = [call EXCEPT !.done = TRUE,
                            !.result = _heuristic_persona_and_language(call.text)]
    /\ UNCHANGED << scam_classifier, tfidf_vectorizer, gemini_model, session_state,
                    handled, inflight, delivered, posted, log, now >>

NextRoute == SelectPersonaAndLanguage \/ HeuristicPersonaAndLanguage

SpecRoute == InitRoute /\ [][NextRoute]_vars

-----------------------------------------------------------------------------
(* The extractor on its own: extract_entities applied to one drawn text    *)

ExtractTexts ==
    { None, Some(""), Some(" "), Some("hello how are you"),
      Some("9876543210 and +91-9876543210"), Some("+91-9876543210 and 9876543210"),
      Some("call 9876543210 or 9876543210"), Some("call +12345678 now"),
      Some("ring +1 800 123 4567 today"), Some("Call 9876543210, alt 8765432109"),
      Some("pay a1@paytm and b2@paytm"), Some("pay raj@okhdfcbank now"),
      Some("send to zz@unknownbank"), Some("UPI x@ybl or y@upi"),
      Some("Track AMZ123456 today"), Some("ref TXN-AB12CD"),
      Some("order no 1234567"), Some("PAN ABCDE1234F IFSC SBIN0001234"),
      Some("id 1234 5678 9012"), Some("card 4111111111111111 ok"),
      Some("card 4111 1111 1111 1111"), Some("a/c 123456789 and 9876543210"),
      Some("a/c 123456789012345"), Some("mail me at scam@fakebank.com"),
      Some("open http://bit.ly/x1 now"), Some("tg @scam_bot1"),
      Some("btc 1A1zP1eP5QGefi2DMPTfTL5SLmv7DivfNa"),
      Some("URGENT: account blocked. Call 9876543210. UPI: x@paytm"),
      Some("urgent urgent URGENT"), Some("verify otp"), Some("win a prize"),
      Some("police arrest warrant"), Some("lottery winner selected") }

InitExtract ==
    /\ PureInit
    /\ scam_classifier = FALSE
    /\ tfidf_vectorizer = FALSE
    /\ gemini_model = FALSE
    /\ call \in [fn : {"extract_entities"}, text : ExtractTexts, set_order : SetOrders,
                 done : {FALSE}, result : {<< >>}]

ExtractEntities ==
    /\ call.fn = "extract_entities" /\ ~call.done
    /\ call' = [call EXCEPT !.done = TRUE,
                            !.result = extract_entities(call.text, call.set_order)]
    /\ UNCHANGED << scam_classifier, tfidf_vectorizer, gemini_model, session_state,
                    handled, inflight, delivered, posted, log, now >>

NextExtract == ExtractEntities

SpecExtract == InitExtract /\ [][NextExtract]_vars

-----------------------------------------------------------------------------
(* The scam type on its own: the cascade of check_and_send_callback applied *)
(* to one drawn current message and history                                 *)

CategoryWords ==
    { "bitcoin", "POLICE", "parcel", "bill", "kyc", "job", "loan", "upi", "prize", "bank",
      "amazon", "hello" }

CategoryTexts ==
    { None, Some(""), Some("URGENT: account blocked. Call 9876543210. UPI: x@paytm") }
    \cup { Some(a \o " and " \o b) : a, b \in CategoryWords }

CategoryHistories ==
    { << >>, << Msg("scammer", Some("You won the lottery, pay the police")) >> }

InitCategory ==
    /\ PureInit
    /\ scam_classifier = FALSE
    /\ tfidf_vectorizer = FALSE
    /\ gemini_model = FALSE
    /\ call \in [fn : {"scam_type"}, current_msg : { Msg("scammer", t) : t \in CategoryTexts },
                 history : CategoryHistories, done : {FALSE}, result : {""}]

ScamType ==
    /\ call.fn = "scam_type" /\ ~call.done
    /\ call' = [call EXCEPT !.done = TRUE, !.result = scam_type(call.current_msg)]
    /\ UNCHANGED << scam_classifier, tfidf_vectorizer, gemini_model, session_state,
                    handled, inflight, delivered, posted, log, now >>

NextCategory == ScamType

SpecCategory == InitCategory /\ [][NextCategory]_vars

-----------------------------------------------------------------------------
(* The server with collaborators that may never answer                     *)

\* The worker is inside generate_content (main.py:813) or send_message
\* (main.py:939).  Both are synchronous calls made without a timeout from an
\* `async def` handler: while one of them has not returned, the handler has
\* not returned and nothing else runs on the event loop.
Blocked == \E r \in inflight : r.pc \in {"routing", "generating"}

InitLive ==
    /\ Init
    /\ ~scam_classifier
    /\ gemini_model

\* POST /analyze for a scam-like request when an LLM call of the handler never
\* answers: the routing call of a request that creates its session, with the
\* store as it was, or the reply generation call, with the session created or
\* updated.  No response, no callback task.
AnalyzeBlocks ==
    /\ ~Blocked
    /\ Len(handled) < MaxRequests
    /\ gemini_model
    /\ \E request \in AnalyzeRequests, ml \in MLOutcomes, route_llm \in RouteOutcomes,
          set_order \in SetOrders, at \in {"routing", "generating"} :
          \E r \in { analyze(request, session_state, now, scam_classifier, tfidf_vectorizer,
                             gemini_model, ml, route_llm, LLMRaises, set_order) } :
              /\ r.is_scam
              /\ at = "routing" => r.routed
              /\ session_state' = IF at = "routing" THEN session_state ELSE r.store
              /\ handled' = Append(handled, [request |-> request, is_scam |-> TRUE,
                                             raised |-> FALSE,
                                             routed |-> at = "generating" /\ r.routed,
                                             generated |-> FALSE])
              /\ inflight' = inflight \cup
                     {[rid |-> Len(handled) + 1, pc |-> at, response |-> NoResponse,
                       task |-> FALSE,
                       analysis_result |-> [scam_detected |-> TRUE, entities |-> r.entities]]}
    /\ UNCHANGED << scam_classifier, tfidf_vectorizer, gemini_model, delivered, posted, log,
                    now, call >>

\* the steps of the server, taken when the event loop is free
LiveAnalyze == ~Blocked /\ Analyze
LiveSendResponse == ~Blocked /\ SendResponse
LiveCheckAndSendCallback == ~Blocked /\ CheckAndSendCallback
\* client.post(..., timeout=10.0) returns or raises within its timeout
LivePostEnds == ~Blocked /\ (PostReturns \/ PostRaises)

NextLive ==
    AnalyzeBlocks \/ LiveAnalyze \/ LiveSendResponse \/ LiveCheckAndSendCallback
    \/ LivePostEnds \/ Tick

\* The framework sends every response and runs every background task; a POST
\* ends within its timeout; the clock does not stop.
SpecLive ==
    /\ InitLive /\ [][NextLive]_vars
    /\ WF_vars(LiveSendResponse) /\ WF_vars(LiveCheckAndSendCallback)
    /\ WF_vars(LivePostEnds) /\ WF_vars(Tick)

-----------------------------------------------------------------------------
(* Properties                                                              *)

HandledIds == 1..Len(handled)
\* the callback task of request rid, if it had one, has evaluated its gate
GateEvaluated(rid) == rid \notin InflightIds \/ Task(rid).pc = "posting"
\* request rid has no work left
Finished(rid) == rid \notin InflightIds
\* the extraction for request rid has a bank account, a payment handle or a link
HasCritical(rid) ==
    LET e == extract_entities_of[Request(rid).message.text, Request(rid).conversationHistory,
                                 suspicious_keywords_list]
    IN  Get(e, "bankAccounts") # << >> \/ Get(e, "upiIds") # << >> \/ Get(e, "phishingLinks") # << >>
\* request rid is scam-like and passes the report gate
Qualifies(rid) ==
    /\ handled[rid].is_scam
    /\ (Len(Request(rid).conversationHistory) + 1 >= 4 \/ HasCritical(rid))

\* C1: a request's callback task posts a report (exactly one) if and only if
\* the request is scam-like and (len(conversationHistory)+1 >= 4 or its
\* extraction has a bank account, payment handle or link); nothing is posted
\* before the gate is evaluated.
C1_CallbackGate ==
    \A rid \in HandledIds :
        /\ Len(posted[rid]) <= 1
        /\ ~GateEvaluated(rid) => posted[rid] = << >>
        /\ GateEvaluated(rid) => (Len(posted[rid]) = 1 <=> Qualifies(rid))

\* C1 witness: a scam-classified single-turn request without critical
\* entities has finished without a report, and a scam-classified single-turn
\* request with a link has posted one.
C1_Witness ==
    \E a, b \in HandledIds :
        /\ Finished(a) /\ handled[a].is_scam /\ Request(a).conversationHistory = << >>
        /\ ~HasCritical(a) /\ posted[a] = << >>
        /\ GateEvaluated(b) /\ handled[b].is_scam /\ Request(b).conversationHistory = << >>
        /\ Get(extract_entities_of[Request(b).message.text, << >>, suspicious_keywords_list],
               "phishingLinks") # << >>
        /\ Len(posted[b]) = 1

\* the reports posted for conversation sid
RECURSIVE PostsUpTo(_, _)
PostsUpTo(sid, n) ==
    IF n = 0 THEN 0
    ELSE PostsUpTo(sid, n - 1)
         + (IF Request(n).sessionId = sid THEN Len(posted[n]) ELSE 0)
Posts(sid) == PostsUpTo(sid, Len(handled))
RECURSIVE AllPostsUpTo(_)
AllPostsUpTo(n) == IF n = 0 THEN 0 ELSE AllPostsUpTo(n - 1) + Len(posted[n])
GatePassing(sid) == { rid \in HandledIds : Request(rid).sessionId = sid /\ Qualifies(rid) }

\* C2: for every conversation id the number of reports dispatched equals the
\* number of gate-passing requests whose callback task has evaluated its gate
\* (no deduplication), and every dispatched POST ends in exactly one log line
\* (no retry).
C2_NoDeduplication ==
    /\ \A sid \in SessionIds :
           Posts(sid) = Cardinality({ rid \in GatePassing(sid) : GateEvaluated(rid) })
    /\ log.sent + log.failed + Cardinality({ r \in inflight : r.pc = "posting" })
           = AllPostsUpTo(Len(handled))

\* C2 witness: two requests of one conversation have both been reported.
C2_Witness ==
    \E sid \in SessionIds : Posts(sid) = 2 /\ inflight = {}

\* C3: the response a caller has received never changes; a callback task is
\* evaluated or posting only after the success response of its request has
\* been delivered, with the reply the handler fixed; and no step of a
\* callback task (gate, POST, its success or failure) touches a response.
C3_ReplyIndependent ==
    [][ /\ \A rid \in RequestIds :
               delivered[rid] # NoResponse => delivered'[rid] = delivered[rid]
        /\ \A r \in inflight' :
               r.pc \in {"callback", "posting"} =>
                   delivered'[r.rid] = r.response /\ r.response.status = "success"
        /\ (posted' # posted \/ log' # log) => delivered' = delivered ]_vars

\* C3 witness: a callback POST has failed and the caller holds the success reply.
C3_Witness ==
    \E rid \in HandledIds :
        /\ Finished(rid) /\ Len(posted[rid]) = 1 /\ log.failed = 1 /\ log.sent = 0
        /\ delivered[rid].status = "success" /\ delivered[rid].reply # ""

\* C4: a step in which the POST fails only logs and ends the task: responses,
\* session store and the list of POSTs made are unchanged (no retry), and
\* the task is gone.
C4_FailureSwallowed ==
    [][ log'.failed # log.failed =>
            /\ log'.failed = log.failed + 1 /\ log'.sent = log.sent
            /\ session_state' = session_state
            /\ delivered' = delivered
            /\ posted' = posted
            /\ \E r \in inflight : r.pc = "posting" /\ inflight' = inflight \ {r} ]_vars

\* C4 witness: a POST has failed.
C4_Witness == log.failed > 0 /\ session_state # << >>

\* the request handled in this step, if the step is a run of the handler
IsHandlerStep == Len(handled') = Len(handled) + 1
Latest == handled'[Len(handled')]
LatestTask == CHOOSE r \in inflight' : r.rid = Len(handled')

\* C5: a session that exists keeps its persona, language and start time in
\* every step, and the router is called by exactly the handler runs that
\* create a session.
C5_SessionContinuity ==
    [][ /\ \A sid \in DOMAIN session_state :
               /\ sid \in DOMAIN session_state'
               /\ session_state'[sid].persona = session_state[sid].persona
               /\ session_state'[sid].language = session_state[sid].language
               /\ session_state'[sid].start_time = session_state[sid].start_time
        /\ IsHandlerStep =>
               (Latest.routed <=> Latest.request.sessionId \notin DOMAIN session_state
                                  /\ Latest.request.sessionId \in DOMAIN session_state') ]_vars

\* C5 witness: a second scam-like request of a conversation, at a later time,
\* whose message alone routes heuristically to another persona and language
\* than the session holds.
C5_Witness ==
    \E a, b \in HandledIds :
        /\ a < b /\ Request(a).sessionId = Request(b).sessionId
        /\ handled[a].routed /\ handled[b].is_scam /\ ~handled[b].routed
        /\ LET sess == session_state[Request(b).sessionId]
               alone == select_persona_and_language_of[Request(b).message.text, FALSE, LLMRaises]
           IN  alone[1] # sess.persona /\ alone[2] # sess.language /\ sess.start_time < now

\* C6: the set of conversation ids with a session only grows.
C6_SessionsStay == [][ DOMAIN session_state \subseteq DOMAIN session_state' ]_vars

\* C6 witness: both conversations have a session, requests that raised, were
\* not scam-like or had their report fail came after its creation.
C6_Witness ==
    /\ DOMAIN session_state = SessionIds
    /\ log.failed > 0
    /\ inflight = {}

\* C7: a handler run that finds the request not scam-like answers 200
\* "success" with the disengagement reply, leaves the session store as it
\* was, calls neither the router nor reply generation and adds no callback
\* task.
C7_NonScamNoEffect ==
    [][ (IsHandlerStep /\ ~Latest.is_scam /\ ~Latest.raised) =>
            /\ session_state' = session_state
            /\ LatestTask.response = Success(DisengageReply)
            /\ ~LatestTask.task
            /\ ~Latest.routed /\ ~Latest.generated
            /\ posted' = posted ]_vars

\* C7 witness: a request that was not scam-like has been answered for a
\* conversation that has a session, and nothing was posted for it.
C7_Witness ==
    \E rid \in HandledIds :
        /\ ~handled[rid].is_scam /\ ~handled[rid].raised
        /\ Request(rid).sessionId \in DOMAIN session_state
        /\ Finished(rid) /\ delivered[rid] = Success(DisengageReply) /\ posted[rid] = << >>
        /\ \E a \in 1..(rid - 1) : Request(a).sessionId = Request(rid).sessionId

\* a finished call of fn in the specifications of a function on its own
Called(fn) == call.fn = fn /\ call.done

\* C8: the heuristic router is an ordered decision list over the lower-cased
\* text: skeptic if an authority marker occurs, else student if a money
\* marker occurs, else grandma if a bank marker occurs, else parent; a text
\* with both an authority and a money marker is skeptic; the language is
\* hinglish exactly when a hinglish marker occurs, whatever the persona.
C8_HeuristicPriority ==
    Called("_heuristic_persona_and_language") =>
        LET t == lower(OrEmpty(call.text))
            authority == \E n \in 1..Len(authority_markers) : Contains(authority_markers[n], t)
            money == \E n \in 1..Len(money_markers) : Contains(money_markers[n], t)
            bank == \E n \in 1..Len(bank_markers) : Contains(bank_markers[n], t)
            regional == \E n \in 1..Len(hinglish_markers) : Contains(hinglish_markers[n], t)
        IN  /\ call.result[1] = "skeptic" <=> authority
            /\ call.result[1] = "student" <=> ~authority /\ money
            /\ call.result[1] = "grandma" <=> ~authority /\ ~money /\ bank
            /\ call.result[1] = "parent" <=> ~authority /\ ~money /\ ~bank
            /\ (authority /\ money) => call.result[1] = "skeptic"
            /\ call.result[2] = "hinglish" <=> regional
            /\ call.result[2] = "english" <=> ~regional

\* C8 witness: the heuristic has routed a text with both an authority marker
\* ("arrest") and a money marker ("lottery") to skeptic.
C8_Witness ==
    /\ Called("_heuristic_persona_and_language")
    /\ call.text # None
    /\ Contains("arrest", lower(call.text[1])) /\ Contains("lottery", lower(call.text[1]))
    /\ call.result[1] = "skeptic"

\* the answer of the routing LLM cannot be parsed in full: the call failed,
\* its first part holds no persona key, or it has no second part, or the
\* second part holds no language marker
BadRoutingAnswer(llm) ==
    \/ llm.raises
    \/ LET parts == split(lower(strip(llm.text)), "|")
       IN  \/ \A n \in 1..Len(PERSONAS) : ~Contains(PERSONAS[n], parts[1])
           \/ Len(parts) < 2
           \/ \A m \in {"english", "hinglish", "hindi"} : ~Contains(m, parts[2])

\* C9: when the LLM is configured and its routing answer cannot be parsed in
\* full, or the call fails, the router returns for both persona and language
\* exactly what the heuristic returns for that text.
C9_FallsThroughEntirely ==
    (Called("select_persona_and_language") /\ gemini_model /\ BadRoutingAnswer(call.llm)) =>
        call.result = _heuristic_persona_and_language(call.text)

\* C10: for a text that is present, predict_scam returns true exactly when
\* (classifier and vectorizer are loaded, the prediction does not raise and
\* its lower-cased string is scam, spam, fraud or 1) or the lower-cased text
\* contains a keyword; it does not raise.
C10_FallbackChain ==
    (Called("predict_scam") /\ call.text # None) =>
        LET tier1 == /\ scam_classifier /\ tfidf_vectorizer
                     /\ ~call.ml.raises
                     /\ lower(call.ml.label) \in {"scam", "spam", "fraud", "1"}
            tier2 == \E n \in 1..Len(keywords) : Contains(keywords[n], lower(call.text[1]))
        IN  call.result = Returned(tier1 \/ tier2)

\* C10 witness: tier 1 is loaded and predicted a negative label, the text
\* holds a keyword, and the result is true.
C10_Witness ==
    /\ Called("predict_scam")
    /\ scam_classifier /\ tfidf_vectorizer
    /\ call.text # None
    /\ ~call.ml.raises /\ call.ml.label = "ham"
    /\ call.result = Returned(TRUE)

\* C11: for a text that is absent or empty predict_scam does not raise, and
\* returns false unless tier 1 itself predicted a positive label.
C11_AbsentTextIsEmptyInput ==
    (Called("predict_scam") /\ call.text \in {None, Some("")}) =>
        call.result = Returned(/\ scam_classifier /\ tfidf_vectorizer
                               /\ call.text # None
                               /\ ~call.ml.raises
                               /\ lower(call.ml.label) \in {"scam", "spam", "fraud", "1"})

\* C12: extract_entities always returns the full mapping of all categories,
\* every one of them empty when the text is absent or empty.
C12_AlwaysFullMapping ==
    Called("extract_entities") =>
        /\ DOMAIN call.result = Categories
        /\ call.text \in {None, Some("")} =>
               \A c \in Categories : call.result[c] = << >>

\* the categories in the order of the cascade, each with its keywords
CascadeOrder ==
    << << "Sextortion", sextortion_keywords >>, << "Digital Arrest", digital_arrest_keywords >>,
       << "Courier Scam", courier_keywords >>, << "Utility Scam", utility_keywords >>,
       << "KYC Scam", kyc_keywords >>, << "Job Scam", job_keywords >>,
       << "Loan Scam", loan_keywords >>, << "UPI Fraud", upi_keywords >>,
       << "Lottery Scam", lottery_keywords >>, << "Bank Fraud", bank_keywords >>,
       << "Phishing", phishing_keywords >> >>
FirstMatch(full_text) ==
    LET hits == { k \in 1..Len(CascadeOrder) : AnyIn(CascadeOrder[k][2], full_text) }
    IN  IF hits = {} THEN "Unknown"
        ELSE CascadeOrder[CHOOSE k \in hits : \A j \in hits : k <= j][1]

\* C13: the scam type is the first category, in the order Sextortion, Digital
\* Arrest, Courier, Utility, KYC, Job, Loan, UPI Fraud, Lottery, Bank Fraud,
\* Phishing, with a keyword in the lower-cased text of the current message,
\* whatever the history holds, and Unknown when none has; a text with both
\* "bitcoin" and "police" is Sextortion.
C13_CascadeOrder ==
    Called("scam_type") =>
        LET full_text == lower(OrEmpty(call.current_msg.text))
        IN  /\ call.result = FirstMatch(full_text)
            /\ (Contains("bitcoin", full_text) /\ Contains("police", full_text)) =>
                   call.result = "Sextortion"

\* a message with "bitcoin" and "police", after a history with lottery wording,
\* has been given the type Sextortion
C13_Witness ==
    /\ Called("scam_type")
    /\ call.current_msg.text = Some("POLICE and bitcoin")
    /\ call.history # << >>
    /\ call.result = "Sextortion"

EndToEndText == Some("URGENT: account blocked. Call 9876543210. UPI: x@paytm")

\* C14: a request whose current message is the end-to-end text is classified
\* as scam, and a report posted for it carries the scam type Bank Fraud.
C14_EndToEndBankFraud ==
    \A rid \in HandledIds :
        Request(rid).message.text = EndToEndText =>
            /\ handled[rid].is_scam
            /\ posted[rid] # << >> => posted[rid][1].scamType = "Bank Fraud"

\* C15: the phoneNumbers of a result have pairwise different normalized forms
\* of at least 10 digits each, every entry is a trimmed string found in the
\* text, and a number written without and with the country code gives the one
\* entry of its first match.
C15_PhoneDedup ==
    (Called("extract_entities") /\ call.result # << >>) =>
        LET phones == call.result.phoneNumbers
        IN  /\ \A m, n \in 1..Len(phones) :
                   m # n => NormalizePhone(phones[m]) # NormalizePhone(phones[n])
            /\ \A n \in 1..Len(phones) :
                   /\ Len(NormalizePhone(phones[n])) >= 10
                   /\ phones[n] = strip(phones[n])
                   /\ Contains(phones[n], call.text[1])
            /\ call.text = Some("9876543210 and +91-9876543210") => phones = << "9876543210" >>
            /\ call.text = Some("+91-9876543210 and 9876543210") => phones = << "+91-9876543210" >>

\* the number written without and with the country code has been extracted as
\* one entry
C15_Witness ==
    /\ Called("extract_entities")
    /\ call.text = Some("9876543210 and +91-9876543210")
    /\ call.result.phoneNumbers = << "9876543210" >>

\* xs is in strictly ascending order: sorted, and without duplicates
StrictlySorted(xs) == \A n \in 1..(Len(xs) - 1) : StrLess(xs[n], xs[n + 1])

\* C16: every category of every result, suspiciousKeywords included, is a
\* duplicate-free sequence in ascending sorted order.
C16_AllCategoriesSorted ==
    (Called("extract_entities") /\ call.result # << >>) =>
        \A c \in Categories : StrictlySorted(call.result[c])

\* the entity categories: every category but the keyword list
EntityCategories == Categories \ {"suspiciousKeywords"}

IsCardLength(e) == Len(e) = 16 /\ OnlyDigits(e) = e

\* C17: within one result no string is an entry of two different categories,
\* except a 16-digit number that is in both creditCards and bankAccounts.
C17_CategoriesExclusive ==
    (Called("extract_entities") /\ call.result # << >>) =>
        \A c, d \in EntityCategories :
            c # d =>
                \A e \in ToSet(call.result[c]) \cap ToSet(call.result[d]) :
                    /\ {c, d} = {"creditCards", "bankAccounts"}
                    /\ IsCardLength(e)

\* e is local-part@provider with a non-empty local part and provider
IsHandle(e) ==
    \E n \in 2..(Len(e) - 1) : At(e, n) = "@" /\ ~Contains("@", Sub(e, n + 1, Len(e)))

\* C18: every upiIds entry is a complete handle local-part@provider that occurs
\* in the text, and two distinct handles with the one known provider give two
\* entries.
C18_UpiHandlesComplete ==
    (Called("extract_entities") /\ call.result # << >>) =>
        LET upis == call.result.upiIds
        IN  /\ \A n \in 1..Len(upis) : IsHandle(upis[n]) /\ Contains(upis[n], call.text[1])
            /\ call.text = Some("pay a1@paytm and b2@paytm") => upis = << "a1@paytm", "b2@paytm" >>

\* the handled requests of conversation sid that were scam-like and whose
\* message holds an elicitation keyword: those that increment the counter
Incrementing(sid) ==
    { rid \in HandledIds : /\ Request(rid).sessionId = sid
                           /\ handled[rid].is_scam
                           /\ MessageHitsOf[Request(rid).message.text].elicitation }
\* the handled requests that created the session of conversation sid
Creators(sid) == { rid \in HandledIds : Request(rid).sessionId = sid /\ handled[rid].routed }
\* requests a and b of one conversation are in flight together (neither has
\* finished its response and callback task) and both increment the counter
Overlapping(a, b) ==
    /\ a # b /\ a \in InflightIds /\ b \in InflightIds
    /\ Request(a).sessionId = Request(b).sessionId
    /\ {a, b} \subseteq Incrementing(Request(a).sessionId)

\* C19 as stated: when two requests of one conversation overlap, an update is
\* lost: the counter is lower than the number of requests that increment it,
\* or the session was created more than once.
C19_RaceLosesUpdate ==
    \A a, b \in HandledIds :
        Overlapping(a, b) =>
            \/ session_state[Request(a).sessionId].elicitation_attempts
                   < Cardinality(Incrementing(Request(a).sessionId))
            \/ Cardinality(Creators(Request(a).sessionId)) > 1

\* C19, amended: no update of a session is lost, however the requests of its
\* conversation overlap: the counter equals the number of requests that
\* increment it, and the session was created once, by the first scam-like
\* request of the conversation.
C19_NoLostUpdate ==
    \A sid \in DOMAIN session_state :
        /\ session_state[sid].elicitation_attempts = Cardinality(Incrementing(sid))
        /\ \E c \in HandledIds :
               /\ Creators(sid) = {c}
               /\ \A rid \in HandledIds :
                      (Request(rid).sessionId = sid /\ handled[rid].is_scam) => c <= rid

\* C19 witness: two requests of one conversation that both increment the
\* counter are in flight together, and the counter is 2.
C19_Witness ==
    \E a, b \in HandledIds :
        /\ Overlapping(a, b)
        /\ session_state[Request(a).sessionId].elicitation_attempts = 2

\* C20: a run of the handler for conversation A, and every step of a callback
\* task, leaves the session of every other conversation B as it was; and a
\* report for A is the payload built from A's request and from a store that
\* holds A's session alone.
C20_ConversationsIsolated ==
    [][ /\ \A B \in DOMAIN session_state :
               (IsHandlerStep => Latest.request.sessionId # B) =>
                   B \in DOMAIN session_state' /\ session_state'[B] = session_state[B]
        /\ \A rid \in HandledIds :
               posted'[rid] # posted[rid] =>
                   LET A == Request(rid).sessionId
                       own == [k \in DOMAIN session_state \cap {A} |-> session_state[k]]
                   IN  /\ posted'[rid][Len(posted'[rid])].sessionId = A
                       /\ posted'[rid] =
                              Append(posted[rid],
                                     CallbackPayload(own, A, Request(rid).conversationHistory,
                                                     Request(rid).message,
                                                     Task(rid).analysis_result, now)) ]_vars

\* C20 witness: conversation B had a session when a request of conversation A
\* was handled, the two sessions differ, and a report for A has been posted.
C20_Witness ==
    \E a, b \in HandledIds :
        /\ b < a /\ Request(a).sessionId # Request(b).sessionId
        /\ {Request(a).sessionId, Request(b).sessionId} \subseteq DOMAIN session_state
        /\ session_state[Request(a).sessionId] # session_state[Request(b).sessionId]
        /\ handled[b].routed
        /\ Len(posted[a]) = 1

\* the step is a run of the handler that found its request scam-like
IsScamStep == IsHandlerStep /\ Latest.is_scam
LatestId == Latest.request.sessionId
\* the session the handler of this step worked on before it updated it: the
\* session of the id, or the one it has just created (main.py:1283-1291)
Before(key) == IF LatestId \in DOMAIN session_state THEN session_state[LatestId][key]
               ELSE IF key = "red_flags" THEN << >> ELSE 0
After(key) == session_state'[LatestId][key]

\* C21: after every scam-like request, the creating one included, the turn
\* count of the session is the length of the supplied history plus 1.
C21_TurnCountRecomputed ==
    [][ IsScamStep => After("turn_count") = Len(Latest.request.conversationHistory) + 1 ]_vars

\* C21 witness: a conversation whose first request came with three history
\* messages and whose second with none has the turn count 1.
C21_Witness ==
    \E a, b \in HandledIds :
        /\ a < b /\ Request(a).sessionId = Request(b).sessionId
        /\ handled[a].is_scam /\ handled[b].is_scam
        /\ Len(Request(a).conversationHistory) = 3
        /\ Request(b).conversationHistory = << >>
        /\ session_state[Request(b).sessionId].turn_count = 1

\* C22: the turn count of a session never decreases from one request to the
\* next.
C22_TurnCountMonotonic ==
    [][ \A sid \in DOMAIN session_state :
            session_state'[sid].turn_count >= session_state[sid].turn_count ]_vars

\* the messages of the history sent by "user" or "agent" with a "?" in the text
QuestionsIn(history) ==
    { n \in 1..Len(history) : /\ history[n].sender \in {"user", "agent"}
                              /\ Contains("?", OrEmpty(history[n].text)) }

TextLabels ==
    { << t, { l \in {"Urgency", "OTP Request", "Suspicious Link"} :
                LET msg_lower == lower(OrEmpty(t))
                IN  \/ l = "Urgency" /\ (Contains("urgent", msg_lower) \/ Contains("immediately", msg_lower))
                    \/ l = "OTP Request" /\ (Contains("otp", msg_lower) \/ Contains("pin", msg_lower))
                    \/ l = "Suspicious Link" /\ (\/ Contains("http", msg_lower)
                                                 \/ Contains("link", msg_lower)
                                                 \/ Contains(".com", msg_lower)) } >> : t \in MessageTexts }
\* the labels the current message and the turn count of a request call for
LabelsDue(request) ==
    (CHOOSE p \in TextLabels : p[1] = request.message.text)[2]
        \cup (IF Len(request.conversationHistory) + 1 <= 2 THEN {"Unsolicited Contact"} ELSE {})
IsPrefix(xs, ys) == Len(xs) <= Len(ys) /\ SubSeq(ys, 1, Len(xs)) = xs

\* C24: after every scam-like request the red flags are the previous labels
\* plus the labels the message and the turn count call for; no step removes a
\* label.
C24_RedFlagUpdate ==
    [][ /\ IsScamStep =>
               /\ ToSet(After("red_flags")) = ToSet(Before("red_flags")) \cup LabelsDue(Latest.request)
               /\ IsPrefix(Before("red_flags"), After("red_flags"))
        /\ \A sid \in DOMAIN session_state :
               ToSet(session_state[sid].red_flags) \subseteq ToSet(session_state'[sid].red_flags) ]_vars

\* C24 witness: a second request has added labels to the ones its session had,
\* and a label its message called for again is there once.
C24_Witness ==
    \E a, b \in HandledIds :
        /\ a < b /\ Request(a).sessionId = Request(b).sessionId
        /\ handled[a].is_scam /\ handled[b].is_scam
        /\ LabelsDue(Request(a)) \cap LabelsDue(Request(b)) # {}
        /\ LabelsDue(Request(b)) \ LabelsDue(Request(a)) # {}
        /\ ToSet(session_state[Request(b).sessionId].red_flags)
               = LabelsDue(Request(a)) \cup LabelsDue(Request(b))

\* the number of elicitation keywords in the text of a message, tabulated over
\* the texts drawn
TextKeywords ==
    { << t, Cardinality({ n \in 1..Len(elicitation_keywords) :
                            Contains(elicitation_keywords[n], lower(OrEmpty(t))) }) >> : t \in MessageTexts }
\* the number of elicitation keywords in the current message of a request
KeywordsIn(request) == (CHOOSE p \in TextKeywords : p[1] = request.message.text)[2]

\* C25: a scam-like request adds exactly 1 to elicitation_attempts when its
\* message holds at least one elicitation keyword and nothing otherwise, from
\* 0 at the creation of the session; in no step does the count decrease.
C25_ElicitationCounter ==
    [][ /\ IsScamStep =>
               After("elicitation_attempts") =
                   Before("elicitation_attempts")
                   + (IF KeywordsIn(Latest.request) >= 1 THEN 1 ELSE 0)
        /\ \A sid \in DOMAIN session_state :
               session_state'[sid].elicitation_attempts >= session_state[sid].elicitation_attempts ]_vars

\* C25 witness: a session has counted one attempt for a message with two
\* keywords, and a later request without a keyword has left the count at 1.
C25_Witness ==
    \E a, b \in HandledIds :
        /\ a < b /\ Request(a).sessionId = Request(b).sessionId
        /\ handled[a].is_scam /\ handled[b].is_scam
        /\ KeywordsIn(Request(a)) >= 2 /\ KeywordsIn(Request(b)) = 0
        /\ session_state[Request(b).sessionId].elicitation_attempts = 1

\* the report posted in this step for request rid
Reported(rid) == posted'[rid] # posted[rid]
Report(rid) == posted'[rid][Len(posted'[rid])]

\* C26: the duration in a report is the seconds elapsed since the start time
\* of the session when they are 180 or more, and 180 + 5 * (len(history) + 1)
\* of the reporting request when they are fewer.
C26_DurationFloor ==
    [][ \A rid \in HandledIds :
            Reported(rid) =>
                LET sid == Request(rid).sessionId
                    elapsed == IF sid \in DOMAIN session_state
                               THEN now - session_state[sid].start_time ELSE 0
                    total_messages == Len(Request(rid).conversationHistory) + 1
                IN  Report(rid).engagementDurationSeconds =
                        IF elapsed >= 180 THEN elapsed ELSE 180 + 5 * total_messages ]_vars

\* C26 witness: one report was made exactly 180 seconds after the start of its
\* session and carries 180; another was made 90 seconds after the start of its
\* session for a single-message request and carries 185.
C26_Witness ==
    \E a, b \in HandledIds :
        /\ Len(posted[a]) = 1 /\ Len(posted[b]) = 1
        /\ session_state[Request(a).sessionId].start_time = 0
        /\ session_state[Request(b).sessionId].start_time = 90
        /\ now = 180 /\ b \in InflightIds
        /\ posted[a][1].engagementDurationSeconds = 180
        /\ Request(b).conversationHistory = << >>
        /\ posted[b][1].engagementDurationSeconds = 185

\* C28: a request with at least one history message is scam-like: it has a
\* session, a callback task and a reply other than the disengagement reply,
\* and its task dispatches a report when the history has 3 or more messages.
C28_HistoryMeansScam ==
    \A rid \in HandledIds :
        Request(rid).conversationHistory # << >> =>
            /\ handled[rid].is_scam
            /\ Request(rid).sessionId \in DOMAIN session_state
            /\ rid \in InflightIds => Task(rid).task
            /\ delivered[rid] # NoResponse =>
                   delivered[rid].code = 200 /\ delivered[rid].reply # DisengageReply
            /\ (Finished(rid) /\ Len(Request(rid).conversationHistory) >= 3) =>
                   Len(posted[rid]) = 1

\* C29: a callback task runs only for a conversation that has a session, and a
\* report names the persona and language of that session, a persona of the
\* four and a language of the two, with the questions and red flags of the
\* session, never the defaults of a missing session.
C29_ReportBackedBySession ==
    [][ /\ \A r \in inflight :
               r.pc \in {"callback", "posting"} =>
                   Request(r.rid).sessionId \in DOMAIN session_state
        /\ \A rid \in HandledIds :
               Reported(rid) =>
                   LET sid == Request(rid).sessionId
                   IN  /\ sid \in DOMAIN session_state
                       /\ Report(rid).persona_used = session_state[sid].persona
                       /\ Report(rid).lang_used = session_state[sid].language
                       /\ Report(rid).persona_used \in {"grandma", "student", "skeptic", "parent"}
                       /\ Report(rid).lang_used \in {"english", "hinglish"}
                       /\ Report(rid).questions_asked = session_state[sid].questions_asked
                       /\ IsPrefix(Report(rid).red_flags, session_state[sid].red_flags) ]_vars

\* C29 witness: a report names the persona and language the LLM routed to,
\* which the heuristic would not have chosen, and a report of another
\* conversation names the heuristic route.
C29_Witness ==
    \E a, b \in HandledIds :
        /\ Request(a).sessionId # Request(b).sessionId
        /\ handled[a].routed /\ handled[b].routed
        /\ Len(posted[a]) = 1 /\ Len(posted[b]) = 1
        /\ posted[a][1].persona_used = "student" /\ posted[a][1].lang_used = "hinglish"
        /\ select_persona_and_language_of[Request(a).message.text, FALSE, LLMRaises]
               # << "student", "hinglish" >>
        /\ << posted[b][1].persona_used, posted[b][1].lang_used >>
               = select_persona_and_language_of[Request(b).message.text, FALSE, LLMRaises]
        /\ posted[b][1].persona_used # "student"

\* C30: the red flags of every session hold no label twice and only labels of
\* the four, so there are at most 4 of them.
C30_RedFlagsAreASet ==
    \A sid \in DOMAIN session_state :
        LET red_flags == session_state[sid].red_flags
        IN  /\ \A m, n \in 1..Len(red_flags) : m # n => red_flags[m] # red_flags[n]
            /\ ToSet(red_flags) \subseteq
                   {"Urgency", "OTP Request", "Suspicious Link", "Unsolicited Contact"}
            /\ Len(red_flags) <= 4

\* C30 witness: after two requests, both with a single message, a session
\* holds all four labels.
C30_Witness ==
    \E sid \in DOMAIN session_state :
        /\ Len(session_state[sid].red_flags) = 4
        /\ Cardinality({ rid \in HandledIds : Request(rid).sessionId = sid
                                              /\ Request(rid).conversationHistory = << >> }) = 2

\* C27: every request that reached the handler is answered and the work for
\* it ends, whatever the LLM and the callback endpoint do.
C27_EveryCallBounded ==
    \A rid \in RequestIds :
        (Len(handled) >= rid) ~> (delivered[rid] # NoResponse /\ rid \notin InflightIds)

=============================================================================
